---------------------------- MODULE Spec2Model ----------------------------
(***************************************************************************)
(* A model of the CMake subproject bridge of mesonbuild:                   *)
(*   - mesonbuild/cmake/client.py: the framed JSON codec and the protocol  *)
(*     session (CMakeClient) over the pipes of a child process;            *)
(*   - mesonbuild/cmake/interpreter.py: statement synthesis                *)
(*     (CMakeInterpreter.pretend_to_be_meson) over converted targets, and  *)
(*     the conversion of the code model (CMakeInterpreter.analyse).        *)
(*                                                                         *)
(* Text is modelled at character level: a Python str or bytes value is a   *)
(* sequence of one-character strings, a pipe is the sequence of characters *)
(* in flight.  JSON values are tagged records [t, v].                      *)
(*                                                                         *)
(* The specifications share the variables:                                 *)
(*   Spec       the protocol session against an arbitrary child process;   *)
(*   SpecCodec  writeMessage looped back into readMessageRaw;              *)
(*   SpecSynth  pretend_to_be_meson over bounded target sets;              *)
(*   SpecInit   CMakeInterpreter.initialise against a CMake server;        *)
(*   SpecConv   the flag extraction of ConverterTarget.postprocess;        *)
(*   SpecAnalyse  CMakeInterpreter.analyse over bounded code models;      *)
(*   SpecPhases  analyse followed by pretend_to_be_meson.                  *)
(***************************************************************************)
EXTENDS Integers, Sequences, FiniteSets, TLC

VARIABLES
    \* ---- client.py: CMakeClient and RequestBase
    proc,            \* self.proc: "None" or "Popen"
    cookie_counter,  \* RequestBase.cookie_counter (class attribute)
    pc,              \* control location of the calling thread
    api,             \* outermost client call in progress ("none" when idle)
    scope,           \* "with" inside a 'with client.connect():' block, else "none"
    request,         \* the request object of the running query (NoRequest if none)
    begin,           \* readMessageRaw: local 'begin'
    rawData,         \* readMessageRaw: local 'rawData' (list of stripped lines)
    raw_ret,         \* how the last readMessageRaw call ended: [how, exc]
    query_ret,       \* what the last query call returned (NoMessage if it has not)
    result,          \* what the last client call returned (NoMessage if nothing)
    exc,             \* the exception the last client call raised (NoExc if none)
    log,             \* the mlog records written by the last step of the client
    stdin_buf,       \* self.proc.stdin: bytes written but not flushed to the pipe
    \* ---- the child process and the pipes (the environment)
    child,           \* "none", "running" or "exited"
    child_in,        \* the bytes the last flush delivered to the child's standard input
    stdout,          \* bytes the child wrote that the client has not read yet
    out_open,        \* the child still holds the write end of its standard output
    nframes,         \* number of free emissions of the running child (bounded by MaxFrames)
    \* ---- history (ghost) variables
    cookies,         \* cookies handed out by gen_cookie, in order
    answers,         \* payloads the child emitted that answer the running request
    outstanding,     \* cookies of requests written whose query has not ended
    trail,           \* the last completed caller-level event
    closes,          \* pipe/process operations performed by shutdown calls
    \* ---- interpreter.py: CMakeInterpreter.pretend_to_be_meson
    targets,         \* self.targets: sequence of ConverterTarget records
    lines,           \* root_cb.lines: the statements emitted so far
    processed,       \* the dict 'processed': names already emitted
    stack,           \* call stack of process_target (frames [tgt, idx])
    ti,              \* the loop variable of 'for i in self.targets' (an index)
    spc,             \* control location of pretend_to_be_meson
    sexc,            \* exception raised by pretend_to_be_meson (NoExc if none)
    lines1,          \* (ghost) the statements the first call returned (<<>> before)
    \* ---- interpreter.py: CMakeInterpreter, the analysed data
    project_name,    \* self.project_name
    languages,       \* self.languages
    \* ---- interpreter.py: CMakeInterpreter.analyse
    apc,             \* control location of analyse ("off" when it does not run)
    ai,              \* the loop variable of the two passes over self.targets (an index)
    object_libs,     \* analyse: local 'object_libs' (object identities)
    nobj,            \* number of ConverterTarget objects constructed so far
    aexc,            \* exception raised by analyse (NoExc if none)
    hashseed,        \* the iteration order of str sets in this process
    arun,            \* (ghost) number of analyse calls that have returned
    targets1,        \* (ghost) self.targets as the first analyse call left it
    codemodel0,      \* (ghost) self.codemodel as initialise stored it
    \* ---- interpreter.py: CMakeInterpreter.initialise
    ipc,             \* control location of initialise ("off" when it does not run)
    bs_reply,        \* initialise: local 'bs_reply' (NoMessage while unset)
    codemodel,       \* self.codemodel (NoMessage for None)
    \* ---- interpreter.py: ConverterTarget
    ctgt,            \* a ConverterTarget: [compile_opts, override_options, pie]
    cprev,           \* (ghost) the same target before the last postprocess step
    cpc,             \* how many times the flag extraction of postprocess has run
    cfiles,          \* target.files of the code model target the ConverterTarget is made of
    cfiles0          \* (ghost) target.files as the code model was stored

vars == <<proc, cookie_counter, pc, api, scope, request, begin, rawData, raw_ret, query_ret,
          result, exc, log, stdin_buf, child, child_in, stdout, out_open, nframes,
          cookies, answers, outstanding, trail, closes, targets, lines, processed, stack,
          ti, spc, sexc, lines1, project_name, languages, apc, ai, object_libs, nobj,
          aexc, hashseed, arun, targets1, codemodel0, ipc, bs_reply, codemodel, ctgt,
          cprev, cpc, cfiles, cfiles0>>

clientVars == <<proc, cookie_counter, pc, api, scope, request, begin, rawData, raw_ret,
                query_ret, result, exc, log, stdin_buf, child, child_in, stdout, out_open,
                nframes, cookies, answers, outstanding, trail, closes>>

synthVars == <<targets, lines, processed, stack, ti, spc, sexc, lines1>>

anaVars == <<project_name, languages, apc, ai, object_libs, nobj, aexc, hashseed, arun,
             targets1, codemodel0>>

initVars == <<ipc, bs_reply, codemodel>>

convVars == <<ctgt, cprev, cpc, cfiles, cfiles0>>

-----------------------------------------------------------------------------
(* Characters and strings                                                  *)

DQ == "\""
BS == "\\"
NL == "\n"
SP == " "
NONASCII == "e-acute"    \* one character outside ASCII (U+00E9)

\* The str literals of the source, as character sequences.
Chars(s) ==
    CASE s = "type" -> <<"t", "y", "p", "e">>
      [] s = "cookie" -> <<"c", "o", "o", "k", "i", "e">>
      [] s = "errorMessage" -> <<"e", "r", "r", "o", "r", "M", "e", "s", "s", "a", "g", "e">>
      [] s = "supportedProtocolVersions" ->
            <<"s", "u", "p", "p", "o", "r", "t", "e", "d", "P", "r", "o", "t", "o", "c",
              "o", "l", "V", "e", "r", "s", "i", "o", "n", "s">>
      [] s = "message" -> <<"m", "e", "s", "s", "a", "g", "e">>
      [] s = "inReplyTo" -> <<"i", "n", "R", "e", "p", "l", "y", "T", "o">>
      [] s = "name" -> <<"n", "a", "m", "e">>
      [] s = "buildFiles" -> <<"b", "u", "i", "l", "d", "F", "i", "l", "e", "s">>
      [] s = "cmakeRootDirectory" ->
            <<"c", "m", "a", "k", "e", "R", "o", "o", "t", "D", "i", "r", "e", "c", "t",
              "o", "r", "y">>
      [] s = "sourceDirectory" ->
            <<"s", "o", "u", "r", "c", "e", "D", "i", "r", "e", "c", "t", "o", "r", "y">>
      [] s = "buildDirectory" ->
            <<"b", "u", "i", "l", "d", "D", "i", "r", "e", "c", "t", "o", "r", "y">>
      [] s = "generator" -> <<"g", "e", "n", "e", "r", "a", "t", "o", "r">>
      [] s = "protocolVersion" ->
            <<"p", "r", "o", "t", "o", "c", "o", "l", "V", "e", "r", "s", "i", "o", "n">>
      [] s = "major" -> <<"m", "a", "j", "o", "r">>
      [] s = "minor" -> <<"m", "i", "n", "o", "r">>
      [] s = "cacheArguments" ->
            <<"c", "a", "c", "h", "e", "A", "r", "g", "u", "m", "e", "n", "t", "s">>
      [] s = "error" -> <<"e", "r", "r", "o", "r">>
      [] s = "hello" -> <<"h", "e", "l", "l", "o">>
      [] s = "progress" -> <<"p", "r", "o", "g", "r", "e", "s", "s">>
      [] s = "reply" -> <<"r", "e", "p", "l", "y">>
      [] s = "signal" -> <<"s", "i", "g", "n", "a", "l">>
      [] s = "handshake" -> <<"h", "a", "n", "d", "s", "h", "a", "k", "e">>
      [] s = "configure" -> <<"c", "o", "n", "f", "i", "g", "u", "r", "e">>
      [] s = "cmakeInputs" -> <<"c", "m", "a", "k", "e", "I", "n", "p", "u", "t", "s">>
      [] s = "compute" -> <<"c", "o", "m", "p", "u", "t", "e">>
      [] s = "codemodel" -> <<"c", "o", "d", "e", "m", "o", "d", "e", "l">>
      [] s = "bogus" -> <<"b", "o", "g", "u", "s">>
      [] s = "meson_" -> <<"m", "e", "s", "o", "n", "_">>
      [] s = "true" -> <<"t", "r", "u", "e">>
      [] s = "false" -> <<"f", "a", "l", "s", "e">>
      [] s = "null" -> <<"n", "u", "l", "l">>
      [] s = "" -> <<>>

CMAKE_SERVER_BEGIN_STR ==
    <<"[", "=", "=", " ", DQ, "C", "M", "a", "k", "e", " ", "S", "e", "r", "v", "e", "r",
      DQ, " ", "=", "=", "[">>

CMAKE_SERVER_END_STR ==
    <<"]", "=", "=", " ", DQ, "C", "M", "a", "k", "e", " ", "S", "e", "r", "v", "e", "r",
      DQ, " ", "=", "=", "]">>

\* str.__contains__ / list membership over sequences
InSeq(x, s) == \E i \in 1..Len(s) : s[i] = x

RECURSIVE Concat(_)
\* ''.join(parts)
Concat(parts) ==
    IF parts = <<>> THEN <<>> ELSE Head(parts) \o Concat(Tail(parts))

RECURSIVE JoinWith(_, _)
\* sep.join(parts)
JoinWith(sep, parts) ==
    IF parts = <<>> THEN <<>>
    ELSE IF Len(parts) = 1 THEN Head(parts)
    ELSE Head(parts) \o sep \o JoinWith(sep, Tail(parts))

Digits == <<"0", "1", "2", "3", "4", "5", "6", "7", "8", "9">>

IsDigit(c) == InSeq(c, Digits)

DigitValue(c) == (CHOOSE i \in 1..10 : Digits[i] = c) - 1

RECURSIVE NatToChars(_)
\* str(n) / '{}'.format(n) for n >= 0
NatToChars(n) ==
    IF n < 10 THEN <<Digits[n + 1]>>
    ELSE NatToChars(n \div 10) \o <<Digits[(n % 10) + 1]>>

\* '{}'.format(n) for an int
IntToChars(n) == IF n < 0 THEN <<"-">> \o NatToChars(-n) ELSE NatToChars(n)

\* Whitespace removed by str.strip() and skipped by the JSON scanner.
IsSpace(c) == c \in {SP, NL, "\t", "\r"}

RECURSIVE FirstInk(_, _)
\* the index of the first character at or after i that is no whitespace
FirstInk(s, i) == IF i <= Len(s) /\ IsSpace(s[i]) THEN FirstInk(s, i + 1) ELSE i

RECURSIVE LastInk(_, _)
\* the index of the last character at or before i that is no whitespace
LastInk(s, i) == IF i >= 1 /\ IsSpace(s[i]) THEN LastInk(s, i - 1) ELSE i

\* line.strip()
Strip(s) == SubSeq(s, FirstInk(s, 1), LastInk(s, Len(s)))

-----------------------------------------------------------------------------
(* JSON values (what json.loads returns and json.dumps takes)              *)

JStr(cs) == [t |-> "str", v |-> cs]       \* a Python str
JInt(n) == [t |-> "int", v |-> n]         \* a Python int
JLit(w) == [t |-> "lit", v |-> w]         \* True, False, None ("true", "false", "null")
JList(items) == [t |-> "list", v |-> items]
JDict(pairs) == [t |-> "dict", v |-> pairs]  \* pairs <<key, value>> in insertion order

\* 'key in d' for a dict d
DictHas(d, k) == d.t = "dict" /\ \E i \in 1..Len(d.v) : d.v[i][1] = k

\* d[key]
DictGet(d, k) == d.v[CHOOSE i \in 1..Len(d.v) : d.v[i][1] = k][2]

\* d[key] = value on the pair list of a dict: a repeated key keeps its place
DictSet(pairs, k, val) ==
    IF \E i \in 1..Len(pairs) : pairs[i][1] = k
    THEN [i \in 1..Len(pairs) |-> IF pairs[i][1] = k THEN <<k, val>> ELSE pairs[i]]
    ELSE Append(pairs, <<k, val>>)

\* Fault model: json.dumps that escapes nothing
EscapeChar_raw(c) == <<c>>

\* json.dumps: the escape of one character of a str (ensure_ascii=True)
EscapeChar(c) ==
    CASE c = DQ -> <<BS, DQ>>
      [] c = BS -> <<BS, BS>>
      [] c = NL -> <<BS, "n">>
      [] c = "\t" -> <<BS, "t">>
      [] c = "\r" -> <<BS, "r">>
      [] c = NONASCII -> <<BS, "u", "0", "0", "e", "9">>
      [] OTHER -> <<c>>

RECURSIVE EscapeStr(_)
EscapeStr(cs) == IF cs = <<>> THEN <<>> ELSE EscapeChar(Head(cs)) \o EscapeStr(Tail(cs))

DumpStr(cs) == <<DQ>> \o EscapeStr(cs) \o <<DQ>>

IndentOf(lvl) == [i \in 1..(2 * lvl) |-> SP]

RECURSIVE Dumps(_, _)
RECURSIVE DumpItems(_, _)
RECURSIVE DumpPairs(_, _)
\* json.dumps(value, indent=2), at nesting level lvl
Dumps(val, lvl) ==
    CASE val.t = "str" -> DumpStr(val.v)
      [] val.t = "int" -> IntToChars(val.v)
      [] val.t = "lit" -> Chars(val.v)
      [] val.t = "list" ->
            IF val.v = <<>> THEN <<"[", "]">>
            ELSE <<"[", NL>> \o DumpItems(val.v, lvl + 1) \o <<NL>> \o IndentOf(lvl) \o <<"]">>
      [] val.t = "dict" ->
            IF val.v = <<>> THEN <<"{", "}">>
            ELSE <<"{", NL>> \o DumpPairs(val.v, lvl + 1) \o <<NL>> \o IndentOf(lvl) \o <<"}">>

DumpItems(items, lvl) ==
    IndentOf(lvl) \o Dumps(Head(items), lvl)
        \o (IF Len(items) > 1 THEN <<",", NL>> \o DumpItems(Tail(items), lvl) ELSE <<>>)

DumpPairs(pairs, lvl) ==
    IndentOf(lvl) \o DumpStr(Head(pairs)[1]) \o <<":", SP>> \o Dumps(Head(pairs)[2], lvl)
        \o (IF Len(pairs) > 1 THEN <<",", NL>> \o DumpPairs(Tail(pairs), lvl) ELSE <<>>)

\* json.loads: scanner results
JFail == [ok |-> FALSE, val |-> JLit("null"), pos |-> 0]
JOk(val, pos) == [ok |-> TRUE, val |-> val, pos |-> pos]

At(s, i) == IF i >= 1 /\ i <= Len(s) THEN s[i] ELSE "EOF"

RECURSIVE SkipWs(_, _)
SkipWs(s, i) == IF IsSpace(At(s, i)) THEN SkipWs(s, i + 1) ELSE i

RECURSIVE ScanString(_, _, _)
\* the characters of a string literal after its opening quote
ScanString(s, i, acc) ==
    LET c == At(s, i)
        e == At(s, i + 1)
    IN  IF c = "EOF" THEN JFail
        ELSE IF c = DQ THEN JOk(JStr(acc), i + 1)
        ELSE IF c = BS THEN
            IF e \in {DQ, BS, "/"} THEN ScanString(s, i + 2, Append(acc, e))
            ELSE IF e = "n" THEN ScanString(s, i + 2, Append(acc, NL))
            ELSE IF e = "t" THEN ScanString(s, i + 2, Append(acc, "\t"))
            ELSE IF e = "r" THEN ScanString(s, i + 2, Append(acc, "\r"))
            ELSE IF e = "u" /\ SubSeq(s, i + 2, i + 5) = <<"0", "0", "e", "9">>
                 THEN ScanString(s, i + 6, Append(acc, NONASCII))
            ELSE JFail
        ELSE IF c \in {NL, "\t", "\r"} THEN JFail     \* control character (strict)
        ELSE ScanString(s, i + 1, Append(acc, c))

RECURSIVE ScanDigits(_, _, _)
ScanDigits(s, i, acc) ==
    IF IsDigit(At(s, i)) THEN ScanDigits(s, i + 1, acc * 10 + DigitValue(s[i]))
    ELSE [val |-> acc, pos |-> i]

ScanNumber(s, i) ==
    LET neg == At(s, i) = "-"
        j == IF neg THEN i + 1 ELSE i
        r == IF At(s, j) = "0" THEN [val |-> 0, pos |-> j + 1] ELSE ScanDigits(s, j, 0)
    IN  IF ~IsDigit(At(s, j)) THEN JFail
        ELSE JOk(JInt(IF neg THEN 0 - r.val ELSE r.val), r.pos)

MatchAt(s, i, w) == i + Len(w) - 1 <= Len(s) /\ SubSeq(s, i, i + Len(w) - 1) = w

RECURSIVE ParseValue(_, _)
RECURSIVE ParseMembers(_, _, _)
RECURSIVE ParseElements(_, _, _)
\* one JSON value starting at s[i] (leading whitespace already skipped)
ParseValue(s, i) ==
    LET c == At(s, i)
    IN  IF c = DQ THEN ScanString(s, i + 1, <<>>)
        ELSE IF c = "{" THEN
            (IF At(s, SkipWs(s, i + 1)) = "}" THEN JOk(JDict(<<>>), SkipWs(s, i + 1) + 1)
             ELSE ParseMembers(s, SkipWs(s, i + 1), <<>>))
        ELSE IF c = "[" THEN
            (IF At(s, SkipWs(s, i + 1)) = "]" THEN JOk(JList(<<>>), SkipWs(s, i + 1) + 1)
             ELSE ParseElements(s, SkipWs(s, i + 1), <<>>))
        ELSE IF c = "-" \/ IsDigit(c) THEN ScanNumber(s, i)
        ELSE IF MatchAt(s, i, Chars("true")) THEN JOk(JLit("true"), i + 4)
        ELSE IF MatchAt(s, i, Chars("false")) THEN JOk(JLit("false"), i + 5)
        ELSE IF MatchAt(s, i, Chars("null")) THEN JOk(JLit("null"), i + 4)
        ELSE JFail

\* '"key": value' pairs up to the closing brace
ParseMembers(s, i, acc) ==
    IF At(s, i) # DQ THEN JFail
    ELSE LET key == ScanString(s, i + 1, <<>>)
         IN  IF ~key.ok THEN JFail
             ELSE LET k == SkipWs(s, key.pos)
                  IN  IF At(s, k) # ":" THEN JFail
                      ELSE LET val == ParseValue(s, SkipWs(s, k + 1))
                           IN  IF ~val.ok THEN JFail
                               ELSE LET m == SkipWs(s, val.pos)
                                        now == DictSet(acc, key.val.v, val.val)
                                    IN  IF At(s, m) = "}" THEN JOk(JDict(now), m + 1)
                                        ELSE IF At(s, m) = ","
                                             THEN ParseMembers(s, SkipWs(s, m + 1), now)
                                        ELSE JFail

\* values up to the closing bracket
ParseElements(s, i, acc) ==
    LET val == ParseValue(s, i)
    IN  IF ~val.ok THEN JFail
        ELSE LET m == SkipWs(s, val.pos)
             IN  IF At(s, m) = "]" THEN JOk(JList(Append(acc, val.val)), m + 1)
                 ELSE IF At(s, m) = ","
                      THEN ParseElements(s, SkipWs(s, m + 1), Append(acc, val.val))
                 ELSE JFail

\* json.loads(text): [ok |-> FALSE] stands for json.JSONDecodeError
JsonLoads(s) ==
    LET r == ParseValue(s, SkipWs(s, 1))
    IN  IF r.ok /\ SkipWs(s, r.pos) > Len(s) THEN r ELSE JFail

-----------------------------------------------------------------------------
(* client.py: message classes                                              *)

NoExc == [type |-> "None", msg |-> "", args |-> <<>>]

\* raise <type>(msg.format(*args))
Raise(type, msg, args) == [exc |-> [type |-> type, msg |-> msg, args |-> args]]

\* return <val>
Return(val) == [exc |-> NoExc, val |-> val]

Raised(r) == r.exc # NoExc

NoMessage == [cls |-> "None", type |-> <<>>, cookie |-> JLit("null"), info |-> JLit("null")]

\* MessageBase.__init__ and the subclasses' attributes: 'info' holds the one
\* attribute the subclass adds (message, signal_name, in_reply_to, ...)
MessageBase(cls, type, cookie, info) ==
    [cls |-> cls, type |-> type, cookie |-> cookie, info |-> info]

Error(cookie, message) == MessageBase("Error", Chars("error"), cookie, message)

Message(cookie, message) == MessageBase("Message", Chars("message"), cookie, message)

Progress(cookie) == MessageBase("Progress", Chars("progress"), cookie, JLit("null"))

SignalBase(cookie, signal_name) ==
    MessageBase("SignalBase", Chars("signal"), cookie, signal_name)

MessageHello(supported_protocol_versions) ==
    MessageBase("MessageHello", Chars("hello"), JStr(Chars("")), supported_protocol_versions)

ReplyHandShake(cookie) ==
    MessageBase("ReplyHandShake", Chars("reply"), cookie, JStr(Chars("handshake")))

ReplyConfigure(cookie) ==
    MessageBase("ReplyConfigure", Chars("reply"), cookie, JStr(Chars("configure")))

ReplyCMakeInputs(cookie, cmake_root, src_dir, build_files) ==
    [cls |-> "ReplyCMakeInputs", type |-> Chars("reply"), cookie |-> cookie,
     info |-> JStr(Chars("cmakeInputs")), cmake_root |-> cmake_root,
     src_dir |-> src_dir, build_files |-> build_files]

\* CMAKE_MESSAGE_TYPES: the keys a message of each type must carry
CMAKE_MESSAGE_TYPES(type) ==
    CASE type = Chars("error") -> <<Chars("cookie"), Chars("errorMessage")>>
      [] type = Chars("hello") -> <<Chars("supportedProtocolVersions")>>
      [] type = Chars("message") -> <<Chars("cookie"), Chars("message")>>
      [] type = Chars("progress") -> <<Chars("cookie")>>
      [] type = Chars("reply") -> <<Chars("cookie"), Chars("inReplyTo")>>
      [] type = Chars("signal") -> <<Chars("cookie"), Chars("name")>>

\* CMAKE_REPLY_TYPES: the keys a reply of each kind must carry
CMAKE_REPLY_TYPES(reply_type) ==
    CASE reply_type = Chars("handshake") -> <<>>
      [] reply_type = Chars("configure") -> <<>>
      [] reply_type = Chars("cmakeInputs") ->
            <<Chars("buildFiles"), Chars("cmakeRootDirectory"), Chars("sourceDirectory")>>

\* the keys of self.type_map
TypeMapKeys ==
    {Chars("error"), Chars("hello"), Chars("message"), Chars("progress"), Chars("reply"),
     Chars("signal")}

\* the keys of self.reply_map
ReplyMapKeys == {Chars("handshake"), Chars("configure"), Chars("cmakeInputs")}

\* Fault model: gen_cookie that formats the same number every time
gen_cookie_fixed(n) == Chars("meson_") \o IntToChars(1)

\* RequestBase.gen_cookie: the cookie made from the counter value n
gen_cookie(n) == Chars("meson_") \o IntToChars(n)

NoRequest == [cls |-> "None", type |-> <<>>, cookie |-> <<>>, f |-> <<>>]

\* RequestHandShake.__init__ (vers_minor is JLit("null") for None)
RequestHandShake(cookie, src_dir, build_dir, generator, vers_major, vers_minor) ==
    [cls |-> "RequestHandShake", type |-> Chars("handshake"), cookie |-> cookie,
     f |-> [src_dir |-> src_dir, build_dir |-> build_dir, generator |-> generator,
            vers_major |-> vers_major, vers_minor |-> vers_minor]]

\* RequestConfigure.__init__ (args is JLit("null") for None, else a JList)
RequestConfigure(cookie, args) ==
    [cls |-> "RequestConfigure", type |-> Chars("configure"), cookie |-> cookie,
     f |-> [args |-> args]]

\* RequestCMakeInputs.__init__
RequestCMakeInputs(cookie) ==
    [cls |-> "RequestCMakeInputs", type |-> Chars("cmakeInputs"), cookie |-> cookie,
     f |-> <<>>]

\* RequestCompute() and RequestCodeModel() of interpreter.py lines 294 and 300:
\* client.py does not define them; they are requests of the kinds 'compute' and
\* 'codemodel' that carry no extra fields
RequestCompute(cookie) ==
    [cls |-> "RequestCompute", type |-> Chars("compute"), cookie |-> cookie, f |-> <<>>]

RequestCodeModel(cookie) ==
    [cls |-> "RequestCodeModel", type |-> Chars("codemodel"), cookie |-> cookie, f |-> <<>>]

\* MessageBase.to_dict and its overrides in the request classes
to_dict(msg) ==
    LET base == << <<Chars("type"), JStr(msg.type)>>, <<Chars("cookie"), JStr(msg.cookie)>> >>
    IN  CASE msg.cls = "RequestHandShake" ->
                JDict(base \o
                  << <<Chars("sourceDirectory"), msg.f.src_dir>>,
                     <<Chars("buildDirectory"), msg.f.build_dir>>,
                     <<Chars("generator"), msg.f.generator>>,
                     <<Chars("protocolVersion"),
                       JDict(<< <<Chars("major"), msg.f.vers_major>> >> \o
                             (IF msg.f.vers_minor # JLit("null")
                              THEN << <<Chars("minor"), msg.f.vers_minor>> >> ELSE <<>>))>> >>)
          [] msg.cls = "RequestConfigure" ->
                JDict(base \o
                  (IF msg.f.args # JLit("null") /\ msg.f.args # JList(<<>>)   \* 'if self.args:'
                   THEN << <<Chars("cacheArguments"), msg.f.args>> >> ELSE <<>>))
          [] OTHER -> JDict(base)

-----------------------------------------------------------------------------
(* client.py: CMakeClient, the codec                                       *)

\* raw_data.encode('ascii'): UnicodeEncodeError on a character outside ASCII
EncodeAscii(s) ==
    IF InSeq(NONASCII, s) THEN Raise("UnicodeEncodeError", "ascii", <<>>) ELSE Return(s)

\* The two bytes of U+00E9 in UTF-8
UTF8_LEAD == "0xC3"
UTF8_CONT == "0xA9"

RECURSIVE Utf8Chars(_)
Utf8Chars(bytes) ==
    IF ~InSeq(UTF8_LEAD, bytes) THEN bytes
    ELSE IF Head(bytes) = UTF8_LEAD /\ Len(bytes) >= 2 /\ bytes[2] = UTF8_CONT
         THEN <<NONASCII>> \o Utf8Chars(Tail(Tail(bytes)))
    ELSE <<Head(bytes)>> \o Utf8Chars(Tail(bytes))

\* line.decode('utf-8'): UnicodeDecodeError on a malformed sequence
DecodeUtf8(bytes) ==
    LET s == Utf8Chars(bytes)
    IN  IF InSeq(UTF8_LEAD, s) \/ InSeq(UTF8_CONT, s)
        THEN Raise("UnicodeDecodeError", "utf-8", <<>>) ELSE Return(s)

\* CMakeClient.writeMessage: the bytes handed to self.proc.stdin.write
writeMessage(msg) ==
    EncodeAscii(<<NL>> \o CMAKE_SERVER_BEGIN_STR \o <<NL>> \o Dumps(to_dict(msg), 0)
                \o <<NL>> \o CMAKE_SERVER_END_STR \o <<NL>>)

\* self.proc.stdout.readline() can return: a whole line is buffered, or the
\* write end is closed (then the rest, possibly b'', is returned)
HasLine(bytes) == InSeq(NL, bytes)

RECURSIVE LineEnd(_, _)
\* the index of the first newline at or after i
LineEnd(bytes, i) == IF bytes[i] = NL THEN i ELSE LineEnd(bytes, i + 1)

\* the bytes readline() returns from the buffered bytes
ReadLine(bytes) == IF HasLine(bytes) THEN SubSeq(bytes, 1, LineEnd(bytes, 1)) ELSE bytes

\* CMakeClient.readMessageRaw, one iteration of the while loop after readline()
\* returned the non-empty 'line': the new locals and whether the loop breaks.
\* A line that cannot be decoded ends the call with UnicodeDecodeError.
readMessageRaw_line(bgn, rd, line) ==
    LET dec == DecodeUtf8(line)
        text == Strip(dec.val)
    IN  IF Raised(dec) THEN [begin |-> bgn, rawData |-> rd, brk |-> TRUE, exc |-> dec.exc]
        ELSE IF bgn /\ text = CMAKE_SERVER_END_STR
             THEN [begin |-> bgn, rawData |-> rd, brk |-> TRUE, exc |-> NoExc]
        ELSE IF bgn
             THEN [begin |-> bgn, rawData |-> Append(rd, text), brk |-> FALSE, exc |-> NoExc]
        ELSE IF text = CMAKE_SERVER_BEGIN_STR
             THEN [begin |-> TRUE, rawData |-> rd, brk |-> FALSE, exc |-> NoExc]
        ELSE [begin |-> bgn, rawData |-> rd, brk |-> FALSE, exc |-> NoExc]

\* CMakeClient.readMessageRaw, after the loop: the dict returned or the raise
readMessageRaw_end(rd) ==
    IF rd # <<>>
    THEN LET r == JsonLoads(JoinWith(<<NL>>, rd))
         IN  IF r.ok THEN Return(r.val) ELSE Raise("JSONDecodeError", "json.loads", <<>>)
    ELSE Raise("CMakeException", "Failed to read data from the CMake server", <<>>)

\* 'key in value' for a parsed JSON value that need not be a dict:
\* "yes", "no", or "TypeError" (an int, bool or None is not iterable)
Contains(val, key) ==
    CASE val.t = "dict" -> IF DictHas(val, key) THEN "yes" ELSE "no"
      [] val.t = "list" -> IF InSeq(JStr(key), val.v) THEN "yes" ELSE "no"
      [] val.t = "str" ->
            IF \E i \in 1..Len(val.v) : MatchAt(val.v, i, key) THEN "yes" ELSE "no"
      [] OTHER -> "TypeError"

\* CMakeClient.resolve_reply_cmakeInputs: the build_files list, or the error of
\* a malformed buildFiles entry
resolve_reply_cmakeInputs(data) ==
    LET bf == DictGet(data, Chars("buildFiles"))
        src == <<"s", "o", "u", "r", "c", "e", "s">>
        isC == <<"i", "s", "C", "M", "a", "k", "e">>
        isT == <<"i", "s", "T", "e", "m", "p", "o", "r", "a", "r", "y">>
        Bad(i) == \/ i.t # "dict"
                  \/ ~DictHas(i, src)
                  \/ DictGet(i, src).t # "list"
                  \/ (DictGet(i, src).v # <<>> /\ ~(DictHas(i, isC) /\ DictHas(i, isT)))
        FilesOf(i) == [k \in 1..Len(DictGet(i, src).v) |->
                          [file |-> DictGet(i, src).v[k], is_cmake |-> DictGet(i, isC),
                           is_temp |-> DictGet(i, isT)]]
    IN  IF bf.t # "list" THEN Raise("TypeError", "buildFiles", <<>>)
        ELSE IF \E k \in 1..Len(bf.v) : Bad(bf.v[k])
             THEN Raise("KeyError", "buildFiles", <<>>)
        ELSE Return(ReplyCMakeInputs(DictGet(data, Chars("cookie")),
                                     DictGet(data, Chars("cmakeRootDirectory")),
                                     DictGet(data, Chars("sourceDirectory")),
                                     Concat([k \in 1..Len(bf.v) |-> FilesOf(bf.v[k])])))

\* CMakeClient.resolve_type_reply
resolve_type_reply(data) ==
    LET reply_type == DictGet(data, Chars("inReplyTo"))
    IN  IF reply_type.t \in {"list", "dict"} THEN Raise("TypeError", "unhashable type", <<>>)
        ELSE IF reply_type.t # "str" \/ reply_type.v \notin ReplyMapKeys
             THEN Raise("CMakeException", "Recieved unknown reply type {}", <<reply_type>>)
        ELSE IF \E i \in 1..Len(CMAKE_REPLY_TYPES(reply_type.v)) :
                    ~DictHas(data, CMAKE_REPLY_TYPES(reply_type.v)[i])
             THEN Raise("CMakeException", "Key {} is missing from CMake server message type {}",
                        <<>>)
        ELSE IF reply_type.v = Chars("handshake")
             THEN Return(ReplyHandShake(DictGet(data, Chars("cookie"))))
        ELSE IF reply_type.v = Chars("configure")
             THEN Return(ReplyConfigure(DictGet(data, Chars("cookie"))))
        ELSE resolve_reply_cmakeInputs(data)

\* CMakeClient.readMessage, after readMessageRaw returned raw: the message
\* object returned or the exception raised
readMessage(raw) ==
    LET has == Contains(raw, Chars("type"))
        type == DictGet(raw, Chars("type"))
    IN  IF has = "no"
        THEN Raise("CMakeException", "The type attribute is missing from the message", <<>>)
        ELSE IF has = "TypeError" \/ raw.t # "dict"
             THEN Raise("TypeError", "raw_data", <<>>)
        ELSE IF type.t \in {"list", "dict"} THEN Raise("TypeError", "unhashable type", <<>>)
        ELSE IF type.t # "str" \/ type.v \notin TypeMapKeys
             THEN Raise("CMakeException", "Recieved unknown message type {}", <<type>>)
        ELSE IF \E i \in 1..Len(CMAKE_MESSAGE_TYPES(type.v)) :
                    ~DictHas(raw, CMAKE_MESSAGE_TYPES(type.v)[i])
             THEN Raise("CMakeException", "Key {} is missing from CMake server message type {}",
                        <<type>>)
        ELSE CASE type.v = Chars("error") ->
                    Return(Error(DictGet(raw, Chars("cookie")),
                                 DictGet(raw, Chars("errorMessage"))))
               [] type.v = Chars("hello") ->
                    Return(MessageHello(DictGet(raw, Chars("supportedProtocolVersions"))))
               [] type.v = Chars("message") ->
                    Return(Message(DictGet(raw, Chars("cookie")),
                                   DictGet(raw, Chars("message"))))
               [] type.v = Chars("progress") -> Return(Progress(DictGet(raw, Chars("cookie"))))
               [] type.v = Chars("reply") -> resolve_type_reply(raw)
               [] type.v = Chars("signal") ->
                    Return(SignalBase(DictGet(raw, Chars("cookie")),
                                      DictGet(raw, Chars("name"))))

\* MessageBase.log and its overrides: the mlog call made (none for Message, Progress)
LogOf(msg) ==
    CASE msg.cls = "Error" -> <<[fn |-> "error", what |-> "CMake server error:", arg |-> msg.info]>>
      [] msg.cls = "SignalBase" -> <<[fn |-> "log", what |-> "CMake signal:", arg |-> msg.info]>>
      [] msg.cls \in {"Message", "Progress"} -> <<>>
      [] msg.cls = "ReplyCMakeInputs" ->
            <<[fn |-> "log", what |-> "CMake root: ", arg |-> msg.cmake_root]>>
      [] OTHER ->
            <<[fn |-> "warning", what |-> "has no log function", arg |-> JStr(msg.type)]>>

\* Fault model: the test of line 255 without the comparison of cookies
query_matches_any_cookie(reply, req) ==
    reply.type \in {Chars("reply"), Chars("error")}

\* Fault model: the test of line 255 accepting the kind 'reply' only
query_matches_reply_only(reply, req) ==
    reply.cookie = JStr(req.cookie) /\ reply.type = Chars("reply")

\* CMakeClient.query, the test of line 255: this message ends the loop
query_matches(reply, req) ==
    reply.cookie = JStr(req.cookie) /\ reply.type \in {Chars("reply"), Chars("error")}

\* Fault model: query_checked that raises without logging the message it got
query_checked_silent(reply) ==
    LET ok == reply.type = Chars("reply")
        h == [fn |-> "log", what |-> "message",
              arg |-> JStr(IF ok THEN <<"S", "U", "C", "C", "E", "E", "D", "E", "D">>
                           ELSE <<"F", "A", "I", "L", "E", "D">>)]
    IN  IF ~ok
        THEN [next |-> "end", val |-> NoMessage, log |-> <<h>>,
              exc |-> Raise("CMakeException", "CMake server query failed", <<>>).exc]
        ELSE [next |-> "end", val |-> reply, log |-> <<h>>, exc |-> NoExc]

\* CMakeClient.query_checked, lines 262-267, on the reply query returned
query_checked(reply) ==
    LET ok == reply.type = Chars("reply")
        h == [fn |-> "log", what |-> "message",
              arg |-> JStr(IF ok THEN <<"S", "U", "C", "C", "E", "E", "D", "E", "D">>
                           ELSE <<"F", "A", "I", "L", "E", "D">>)]
    IN  IF ~ok
        THEN [next |-> "end", val |-> NoMessage, log |-> <<h>> \o LogOf(reply),
              exc |-> Raise("CMakeException", "CMake server query failed", <<>>).exc]
        ELSE [next |-> "end", val |-> reply, log |-> <<h>>, exc |-> NoExc]

\* Fault model: do_handshake that takes every reply for the handshake reply
do_handshake_any_reply(reply) ==
    IF reply.type # Chars("reply")
    THEN [next |-> "end", val |-> NoMessage,
          log |-> LogOf(reply) \o <<[fn |-> "log", what |-> "CMake server handshake",
                                     arg |-> JStr(<<"F", "A", "I", "L", "E", "D">>)]>>,
          exc |-> Raise("CMakeException",
                        "Failed to perform the handshake with the CMake server", <<>>).exc]
    ELSE [next |-> "end", val |-> NoMessage,
          log |-> <<[fn |-> "log", what |-> "CMake server handshake",
                     arg |-> JStr(<<"S", "U", "C", "C", "E", "E", "D", "E", "D">>)]>>,
          exc |-> NoExc]

\* CMakeClient.do_handshake, lines 277-281, on the reply query returned
do_handshake_reply(reply) ==
    IF reply.cls # "ReplyHandShake"
    THEN [next |-> "end", val |-> NoMessage,
          log |-> LogOf(reply) \o <<[fn |-> "log", what |-> "CMake server handshake",
                                     arg |-> JStr(<<"F", "A", "I", "L", "E", "D">>)]>>,
          exc |-> Raise("CMakeException",
                        "Failed to perform the handshake with the CMake server", <<>>).exc]
    ELSE [next |-> "end", val |-> NoMessage,
          log |-> <<[fn |-> "log", what |-> "CMake server handshake",
                     arg |-> JStr(<<"S", "U", "C", "C", "E", "E", "D", "E", "D">>)]>>,
          exc |-> NoExc]

\* CMakeClient.do_handshake, lines 271-273, on what readMessage did
do_handshake_hello(msgres) ==
    IF Raised(msgres)
    THEN [next |-> "end", val |-> NoMessage, log |-> <<>>, exc |-> msgres.exc]
    ELSE IF msgres.val.cls # "MessageHello"
         THEN [next |-> "end", val |-> NoMessage, log |-> <<>>,
               exc |-> Raise("CMakeException",
                             "Recieved an unexpected message from the CMake server", <<>>).exc]
    ELSE [next |-> "hs_query", val |-> NoMessage, log |-> <<>>, exc |-> NoExc]

\* Fault model: query that writes a request again when the message read does not answer it
query_loop_retry(msgres, req, outer) ==
    IF Raised(msgres)
    THEN [next |-> "end", val |-> NoMessage, log |-> <<>>, exc |-> msgres.exc]
    ELSE IF query_matches(msgres.val, req)
         THEN CASE outer = "query_checked" -> query_checked(msgres.val)
                [] outer = "do_handshake" -> do_handshake_reply(msgres.val)
                [] OTHER -> [next |-> "end", val |-> msgres.val, log |-> <<>>, exc |-> NoExc]
    ELSE [next |-> "hs_query", val |-> NoMessage, log |-> LogOf(msgres.val), exc |-> NoExc]

\* CMakeClient.query, one turn of the 'while True' loop on what readMessage
\* did: return to the caller (by 'outer', the client call that runs the
\* query), or log the message and read again
query_loop(msgres, req, outer) ==
    IF Raised(msgres)
    THEN [next |-> "end", val |-> NoMessage, log |-> <<>>, exc |-> msgres.exc]
    ELSE IF query_matches(msgres.val, req)
         THEN CASE outer = "query_checked" -> query_checked(msgres.val)
                [] outer = "do_handshake" -> do_handshake_reply(msgres.val)
                [] OTHER -> [next |-> "end", val |-> msgres.val, log |-> <<>>, exc |-> NoExc]
    ELSE [next |-> "q_read", val |-> NoMessage, log |-> LogOf(msgres.val), exc |-> NoExc]

-----------------------------------------------------------------------------
(* Bounds of the model                                                     *)

MaxRequests == 2     \* requests constructed in one run (caps cookie_counter)
MaxFrames == 3       \* emissions of one child process
MaxTargets == 3      \* length of self.targets
MaxEdges == 2        \* link_with and object_libs entries of a target set

-----------------------------------------------------------------------------
(* The child process (the environment of the session)                      *)

RECURSIVE DumpsCompact(_)
RECURSIVE DumpCompactSeq(_, _)
\* The child's JSON writer: one line, no whitespace
DumpsCompact(val) ==
    CASE val.t = "str" -> DumpStr(val.v)
      [] val.t = "int" -> IntToChars(val.v)
      [] val.t = "lit" -> Chars(val.v)
      [] val.t = "list" -> <<"[">> \o DumpCompactSeq(val.v, FALSE) \o <<"]">>
      [] val.t = "dict" -> <<"{">> \o DumpCompactSeq(val.v, TRUE) \o <<"}">>

DumpCompactSeq(items, pairs) ==
    IF items = <<>> THEN <<>>
    ELSE (IF pairs
          THEN DumpStr(Head(items)[1]) \o <<":">> \o DumpsCompact(Head(items)[2])
          ELSE DumpsCompact(Head(items)))
         \o (IF Len(items) > 1 THEN <<",">> \o DumpCompactSeq(Tail(items), pairs) ELSE <<>>)

\* A frame as the child writes it, and its truncations
ChildFrame(val, cut) ==
    LET text == DumpsCompact(val)
        head == <<NL>> \o CMAKE_SERVER_BEGIN_STR \o <<NL>>
    IN  CASE cut = "whole" -> head \o text \o <<NL>> \o CMAKE_SERVER_END_STR \o <<NL>>
          [] cut = "payload" -> head \o text \o <<NL>>
          [] cut = "partial" -> head \o SubSeq(text, 1, Len(text) - 1)
          [] cut = "begin" -> head

\* The payloads the child chooses from, given the cookie c issued last and the
\* kind of the request it belongs to
ChildMenu(c, kind) ==
    LET Obj(type, cookie, extra) ==
            JDict(<< <<Chars("cookie"), JStr(cookie)>>, <<Chars("type"), JStr(type)>> >>
                  \o extra)
        InReplyTo(k) == << <<Chars("inReplyTo"), JStr(k)>> >>
        Text(k, t) == << <<k, JStr(<<t>>)>> >>
        inputs == << <<Chars("buildFiles"), JList(<<>>)>>,
                     <<Chars("cmakeRootDirectory"), JStr(<<"r">>)>>,
                     <<Chars("sourceDirectory"), JStr(<<"s">>)>> >>
        body(k) == InReplyTo(k) \o (IF k = Chars("cmakeInputs") THEN inputs ELSE <<>>)
        other == gen_cookie(0)
        otherKind == IF kind = Chars("handshake") THEN Chars("configure")
                     ELSE Chars("handshake")
    IN  << Obj(Chars("reply"), c, body(kind)),
           Obj(Chars("error"), c, Text(Chars("errorMessage"), "E")),
           Obj(Chars("progress"), c, <<>>),
           Obj(Chars("message"), c, Text(Chars("message"), "M")),
           Obj(Chars("signal"), c, Text(Chars("name"), "S")),
           JDict(<< <<Chars("supportedProtocolVersions"),
                      JList(<<JDict(<< <<Chars("major"), JInt(1)>>,
                                       <<Chars("minor"), JInt(0)>> >>)>>)>>,
                    <<Chars("type"), JStr(Chars("hello"))>> >>),
           Obj(Chars("reply"), other, body(kind)),
           Obj(Chars("error"), other, Text(Chars("errorMessage"), "E")),
           Obj(Chars("reply"), c, body(otherKind)),
           Obj(Chars("bogus"), c, <<>>),
           JDict(<< <<Chars("cookie"), JStr(c)>> >>),
           Obj(Chars("reply"), c, InReplyTo(Chars("compute"))),
           Obj(Chars("reply"), c, <<>>),
           Obj(Chars("error"), c, <<>>),
           Obj(Chars("reply"), c, InReplyTo(Chars("cmakeInputs"))),
           JDict(<< <<Chars("cookie"), JStr(c)>>, <<Chars("type"), JList(<<>>)>> >>),
           Obj(Chars("reply"), c, << <<Chars("inReplyTo"), JList(<<>>)>> >>) >>

\* the menu in the current state
Menu ==
    ChildMenu(gen_cookie(cookie_counter),
              IF request = NoRequest THEN Chars("handshake") ELSE request.type)

\* the menu entries the child may leave unterminated
CutMenu == {1, 2, 3}

\* the payload carries the cookie of req and the kind 'reply' or 'error'
IsAnswer(val, req) ==
    /\ req # NoRequest
    /\ DictHas(val, Chars("cookie")) /\ DictGet(val, Chars("cookie")) = JStr(req.cookie)
    /\ DictHas(val, Chars("type"))
    /\ DictGet(val, Chars("type")) \in {JStr(Chars("reply")), JStr(Chars("error"))}

-----------------------------------------------------------------------------
(* The protocol session: actions                                           *)

SynthIdle ==
    /\ targets = <<>> /\ lines = <<>> /\ processed = <<>> /\ stack = <<>> /\ ti = 0
    /\ spc = "off" /\ sexc = NoExc /\ lines1 = <<>>

NoRawRet == [how |-> "none", exc |-> NoExc]

ClientInit ==
    /\ proc = "None" /\ cookie_counter = 0 /\ pc = "idle" /\ api = "none"
    /\ scope = "none" /\ request = NoRequest /\ begin = FALSE /\ rawData = <<>>
    /\ raw_ret = NoRawRet /\ query_ret = NoMessage /\ result = NoMessage /\ exc = NoExc
    /\ log = <<>> /\ stdin_buf = <<>> /\ child = "none" /\ child_in = <<>>
    /\ stdout = <<>> /\ out_open = FALSE /\ nframes = 0 /\ cookies = <<>>
    /\ answers = <<>> /\ outstanding = <<>>
    /\ trail = [op |-> "init", how |-> "returned"] /\ closes = <<>>

\* initialise does not run
InitIdle == ipc = "off" /\ bs_reply = NoMessage /\ codemodel = NoMessage

NoTarget == [compile_opts |-> <<>>, override_options |-> <<>>, pie |-> FALSE]

\* no target is being converted
ConvIdle ==
    ctgt = NoTarget /\ cprev = NoTarget /\ cpc = 0 /\ cfiles = <<>> /\ cfiles0 = <<>>

\* analyse does not run
AnalyseOff ==
    /\ apc = "off" /\ ai = 0 /\ object_libs = <<>> /\ nobj = 0 /\ aexc = NoExc
    /\ hashseed = 0 /\ arun = 0 /\ targets1 = <<>> /\ codemodel0 = NoMessage

\* CMakeInterpreter.__init__, lines 225-226
AnaIdle == project_name = "" /\ languages = <<>> /\ AnalyseOff

Init == ClientInit /\ SynthIdle /\ InitIdle /\ ConvIdle /\ AnaIdle

\* where control goes when a client call ends with exception e
AfterCall(e) == IF e # NoExc /\ scope = "with" THEN "finally" ELSE "idle"

How(e) == IF e # NoExc THEN "raised" ELSE "returned"

Debug(what) == [fn |-> "debug", what |-> what, arg |-> JLit("null")]

\* CMakeClient.startup: what the call does, 'found' telling whether
\* find_cmake_binary finds the executable
startup(found) ==
    IF proc # "None"
    THEN Raise("CMakeException", "The CMake server was already started", <<>>)
    ELSE IF ~found THEN Raise("CMakeException", "Unable to find CMake", <<>>)
    ELSE Return("Popen")

\* the state after startup(found): Popen(...) gives a fresh child and pipes
StartupEffect(found) ==
    /\ exc' = startup(found).exc
    /\ result' = NoMessage
    /\ IF Raised(startup(found))
       THEN /\ log' = <<>>
            /\ UNCHANGED <<proc, child, out_open, stdout, child_in, stdin_buf, nframes,
                           answers, outstanding, request, raw_ret, query_ret, closes>>
       ELSE /\ log' = <<Debug("Starting CMake server with CMake")>>
            /\ proc' = "Popen" /\ child' = "running" /\ out_open' = TRUE /\ stdout' = <<>>
            /\ child_in' = <<>> /\ stdin_buf' = <<>> /\ nframes' = 0 /\ answers' = <<>>
            /\ outstanding' = <<>> /\ request' = NoRequest /\ raw_ret' = NoRawRet
            /\ query_ret' = NoMessage /\ closes' = <<>>

\* a direct call of startup()
CallStartup ==
    /\ pc = "idle"
    /\ \E found \in BOOLEAN :
          /\ StartupEffect(found)
          /\ pc' = AfterCall(startup(found).exc)
          /\ trail' = [op |-> "startup", how |-> How(startup(found).exc)]
    /\ UNCHANGED <<cookie_counter, api, scope, begin, rawData, cookies, synthVars, initVars, convVars, anaVars>>

\* CMakeClient.connect, up to the yield: 'with client.connect():' is entered
EnterWith ==
    /\ pc = "idle" /\ scope = "none"
    /\ \E found \in BOOLEAN :
          /\ StartupEffect(found)
          /\ scope' = IF Raised(startup(found)) THEN "none" ELSE "with"
          /\ trail' = [op |-> "connect", how |-> IF Raised(startup(found)) THEN "raised"
                                                  ELSE "entered"]
    /\ UNCHANGED <<cookie_counter, pc, api, begin, rawData, cookies, synthVars, initVars, convVars, anaVars>>

\* CMakeClient.shutdown: what the call does.  'timeout': wait(timeout=2)
\* raises TimeoutExpired.  stdin.close() flushes the bytes a failed flush left
\* in the buffer; the pipe is then broken and close() raises BrokenPipeError
\* after closing the descriptor.
shutdown(timeout) ==
    IF proc = "None"
    THEN [exc |-> NoExc, proc |-> proc, child |-> child, stdin_buf |-> stdin_buf,
          out_open |-> out_open, stdout |-> stdout, closes |-> <<>>, log |-> <<>>]
    ELSE IF stdin_buf # <<>>
         THEN [exc |-> Raise("BrokenPipeError", "stdin.close", <<>>).exc, proc |-> proc,
               child |-> child, stdin_buf |-> <<>>, out_open |-> out_open,
               stdout |-> stdout, closes |-> <<"stdin.close">>,
               log |-> <<Debug("Shutting down the CMake server")>>]
    ELSE [exc |-> NoExc, proc |-> "None", child |-> "none", stdin_buf |-> <<>>,
          out_open |-> FALSE, stdout |-> <<>>,
          closes |-> <<"stdin.close", "stdout.close", "wait">>
                       \o (IF timeout THEN <<"terminate">> ELSE <<>>),
          log |-> <<Debug("Shutting down the CMake server")>>]

ShutdownEffect(timeout) ==
    /\ proc' = shutdown(timeout).proc /\ child' = shutdown(timeout).child
    /\ stdin_buf' = shutdown(timeout).stdin_buf /\ out_open' = shutdown(timeout).out_open
    /\ stdout' = shutdown(timeout).stdout /\ closes' = shutdown(timeout).closes
    /\ log' = shutdown(timeout).log

\* a direct call of shutdown()
CallShutdown ==
    /\ pc = "idle" /\ scope = "none"
    /\ \E timeout \in BOOLEAN :
          /\ timeout => (proc # "None" /\ child = "running")
          /\ ShutdownEffect(timeout)
          /\ exc' = shutdown(timeout).exc
          /\ trail' = [op |-> "shutdown", how |-> How(shutdown(timeout).exc)]
    /\ result' = NoMessage
    /\ UNCHANGED <<cookie_counter, pc, api, scope, request, begin, rawData, raw_ret, query_ret,
                   child_in, nframes, cookies, answers, outstanding, synthVars, initVars, convVars, anaVars>>

\* CMakeClient.connect, the finally clause: the with block is left, normally
\* (pc = "idle") or by an exception raised inside it (pc = "finally")
ExitWith ==
    /\ scope = "with" /\ pc \in {"idle", "finally"}
    /\ \E timeout \in BOOLEAN :
          /\ timeout => (proc # "None" /\ child = "running")
          /\ ShutdownEffect(timeout)
          /\ exc' = IF shutdown(timeout).exc # NoExc THEN shutdown(timeout).exc
                    ELSE IF pc = "finally" THEN exc ELSE NoExc
    /\ pc' = "idle" /\ scope' = "none"
    /\ trail' = [op |-> "connect", how |-> "exit"]
    /\ UNCHANGED <<cookie_counter, api, request, begin, rawData, raw_ret, query_ret, result,
                   child_in, nframes, cookies, answers, outstanding, synthVars, initVars, convVars, anaVars>>

\* self.proc.stdin.write(bytes); self.proc.stdin.flush(): the bytes reach the
\* child, or (the child is gone) flush raises and the bytes stay buffered
PipeWrite(bytes) ==
    IF child = "running"
    THEN [exc |-> NoExc, child_in |-> stdin_buf \o bytes, stdin_buf |-> <<>>]
    ELSE [exc |-> Raise("BrokenPipeError", "stdin.flush", <<>>).exc,
          child_in |-> child_in, stdin_buf |-> stdin_buf \o bytes]

\* CMakeClient.query, line 252: the request is written, then the loop reads
QueryWrite(req) ==
    LET bytes == writeMessage(req)
        io == PipeWrite(bytes.val)
        e == IF Raised(bytes) THEN bytes.exc ELSE io.exc
    IN  /\ request' = req
        /\ child_in' = IF Raised(bytes) THEN child_in ELSE io.child_in
        /\ stdin_buf' = IF Raised(bytes) THEN stdin_buf ELSE io.stdin_buf
        /\ outstanding' = IF e = NoExc THEN Append(outstanding, req.cookie) ELSE outstanding
        /\ answers' = <<>> /\ query_ret' = NoMessage
        /\ begin' = FALSE /\ rawData' = <<>>
        /\ exc' = e /\ result' = NoMessage /\ log' = <<>>
        /\ pc' = IF e = NoExc THEN "q_read" ELSE AfterCall(e)

\* The request classes a caller constructs: RequestConfigure(), RequestCMakeInputs()
NewRequest(cls, cookie) ==
    IF cls = "RequestConfigure" THEN RequestConfigure(cookie, JLit("null"))
    ELSE RequestCMakeInputs(cookie)

\* a call query(request) or query_checked(request, message) with a new request
CallQuery ==
    /\ pc = "idle" /\ scope = "with" /\ cookie_counter < MaxRequests
    /\ cookie_counter' = cookie_counter + 1
    /\ cookies' = Append(cookies, gen_cookie(cookie_counter + 1))
    /\ \E outer \in {"query", "query_checked"}, cls \in {"RequestConfigure", "RequestCMakeInputs"} :
          /\ QueryWrite(NewRequest(cls, gen_cookie(cookie_counter + 1)))
          /\ api' = IF pc' = "q_read" THEN outer ELSE "none"
          /\ trail' = [op |-> outer, how |-> IF pc' = "q_read" THEN "running" ELSE "raised"]
    /\ UNCHANGED <<proc, scope, raw_ret, child, stdout, out_open, nframes, closes, synthVars, initVars, convVars, anaVars>>

\* a call do_handshake(src_dir, build_dir, generator, 1): readMessage comes first
CallDoHandshake ==
    /\ pc = "idle" /\ scope = "with" /\ cookie_counter < MaxRequests
    /\ pc' = "hs_read" /\ api' = "do_handshake"
    /\ begin' = FALSE /\ rawData' = <<>>
    /\ exc' = NoExc /\ result' = NoMessage /\ log' = <<>>
    /\ trail' = [op |-> "do_handshake", how |-> "running"]
    /\ UNCHANGED <<proc, cookie_counter, scope, request, raw_ret, query_ret, stdin_buf, child,
                   child_in, stdout, out_open, nframes, cookies, answers, outstanding, closes,
                   synthVars, initVars, convVars, anaVars>>

\* CMakeClient.do_handshake, lines 275-276, or a retry of the running query:
\* a request is made and handed to query
HandshakeQuery ==
    /\ pc = "hs_query"
    /\ cookie_counter' = cookie_counter + 1
    /\ cookies' = Append(cookies, gen_cookie(cookie_counter + 1))
    /\ QueryWrite(RequestHandShake(gen_cookie(cookie_counter + 1), JStr(<<"s">>),
                                   JStr(<<"b">>), JStr(<<"N">>), JInt(1), JLit("null")))
    /\ api' = IF pc' = "q_read" THEN api ELSE "none"
    /\ trail' = [op |-> api, how |-> IF pc' = "q_read" THEN "running" ELSE "raised"]
    /\ UNCHANGED <<proc, scope, raw_ret, child, stdout, out_open, nframes, closes, synthVars, initVars, convVars, anaVars>>

\* what follows a readMessage call, by the place it was called from
AfterRead(msgres) ==
    CASE pc = "hs_read" -> do_handshake_hello(msgres)
      [] pc = "q_read" -> query_loop(msgres, request, api)

\* the list without the entries equal to x
Without(s, x) == SelectSeq(s, LAMBDA y : y # x)

\* readMessageRaw has ended with rawres (ended 'how'): readMessage, then the caller
Deliver(rawres, how) ==
    LET msgres == IF Raised(rawres) THEN rawres ELSE readMessage(rawres.val)
        fin == IF pc = "codec_read"
               THEN [next |-> "codec_done", log |-> <<>>, exc |-> rawres.exc,
                     val |-> IF Raised(rawres) THEN NoMessage ELSE rawres.val]
               ELSE AfterRead(msgres)
        returns == pc = "q_read" /\ ~Raised(msgres) /\ fin.next # "q_read"
    IN  /\ raw_ret' = [how |-> how, exc |-> rawres.exc]
        /\ begin' = FALSE /\ rawData' = <<>>
        /\ log' = fin.log
        /\ exc' = fin.exc /\ result' = fin.val
        /\ query_ret' = IF returns THEN msgres.val ELSE query_ret
        /\ outstanding' = IF fin.next = "end" THEN Without(outstanding, request.cookie)
                          ELSE outstanding
        /\ pc' = IF fin.next = "end" THEN AfterCall(fin.exc) ELSE fin.next
        /\ api' = IF fin.next = "end" THEN "none" ELSE api
        /\ trail' = IF fin.next = "end" THEN [op |-> api, how |-> How(fin.exc)] ELSE trail

\* CMakeClient.readMessageRaw: one evaluation of the loop condition and, when
\* the child still runs, one readline() with the loop body.  readline() blocks
\* while no whole line is buffered and the write end is open.
ReadStep ==
    /\ pc \in {"hs_read", "q_read", "codec_read"}
    /\ child # "running" \/ HasLine(stdout) \/ ~out_open
    /\ LET polled == child = "running"          \* self.proc.poll() is None
           line == ReadLine(stdout)
           it == readMessageRaw_line(begin, rawData, line)
       IN  IF ~polled
           THEN /\ Deliver(readMessageRaw_end(rawData), "exited")
                /\ UNCHANGED stdout
           ELSE /\ stdout' = SubSeq(stdout, Len(line) + 1, Len(stdout))
                /\ IF line = <<>> THEN Deliver(readMessageRaw_end(rawData), "eof")
                   ELSE IF it.exc # NoExc THEN Deliver([exc |-> it.exc], "error")
                   ELSE IF it.brk THEN Deliver(readMessageRaw_end(it.rawData), "sentinel")
                   ELSE /\ begin' = it.begin /\ rawData' = it.rawData /\ log' = <<>>
                        /\ UNCHANGED <<raw_ret, query_ret, exc, result, outstanding, pc, api,
                                       trail>>
    /\ UNCHANGED <<proc, cookie_counter, scope, request, stdin_buf, child, child_in,
                   out_open, nframes, cookies, answers, closes, synthVars, initVars, convVars, anaVars>>

\* ---- the child

\* the child writes a whole frame
ChildEmit ==
    /\ child = "running" /\ out_open /\ stdout = <<>> /\ nframes < MaxFrames
    /\ LET menu == Menu
       IN  \E i \in 1..Len(menu) :
              /\ stdout' = ChildFrame(menu[i], "whole")
              /\ answers' = IF IsAnswer(menu[i], request) THEN Append(answers, menu[i])
                            ELSE answers
    /\ nframes' = nframes + 1
    /\ UNCHANGED <<proc, cookie_counter, pc, api, scope, request, begin, rawData, raw_ret,
                   query_ret, result, exc, log, stdin_buf, child, child_in, out_open, cookies,
                   outstanding, trail, closes, synthVars, initVars, convVars, anaVars>>

\* the child writes the beginning of a frame and closes its output
ChildCut ==
    /\ child = "running" /\ out_open /\ stdout = <<>> /\ nframes < MaxFrames
    /\ LET menu == Menu
       IN  \E i \in CutMenu, cut \in {"payload", "partial", "begin"} :
              /\ cut # "payload" => i = 1
              /\ stdout' = ChildFrame(menu[i], cut)
              /\ answers' = IF cut = "payload" /\ IsAnswer(menu[i], request)
                            THEN Append(answers, menu[i]) ELSE answers
    /\ out_open' = FALSE
    /\ nframes' = nframes + 1
    /\ UNCHANGED <<proc, cookie_counter, pc, api, scope, request, begin, rawData, raw_ret,
                   query_ret, result, exc, log, stdin_buf, child, child_in, cookies, outstanding,
                   trail, closes, synthVars, initVars, convVars, anaVars>>

\* the child writes a line that belongs to no frame
ChildJunk ==
    /\ child = "running" /\ out_open /\ stdout = <<>> /\ nframes < MaxFrames
    /\ stdout' = <<"-", "-", SP, "x", NL>>
    /\ nframes' = nframes + 1
    /\ UNCHANGED <<proc, cookie_counter, pc, api, scope, request, begin, rawData, raw_ret,
                   query_ret, result, exc, log, stdin_buf, child, child_in, out_open, cookies,
                   answers, outstanding, trail, closes, synthVars, initVars, convVars, anaVars>>

\* the child exits
ChildExit ==
    /\ child = "running"
    /\ child' = "exited" /\ out_open' = FALSE
    /\ UNCHANGED <<proc, cookie_counter, pc, api, scope, request, begin, rawData, raw_ret,
                   query_ret, result, exc, log, stdin_buf, child_in, stdout, nframes, cookies,
                   answers, outstanding, trail, closes, synthVars, initVars, convVars, anaVars>>

Next ==
    \/ CallStartup
    \/ EnterWith
    \/ CallShutdown
    \/ ExitWith
    \/ CallQuery
    \/ CallDoHandshake
    \/ HandshakeQuery
    \/ ReadStep
    \/ ChildEmit
    \/ ChildCut
    \/ ChildJunk
    \/ ChildExit

Spec == Init /\ [][Next]_vars

-----------------------------------------------------------------------------
(* writeMessage looped back into readMessageRaw                             *)

\* str values that need escaping, or look like framing, in a request
CodecStrings ==
    {<<>>, <<"a">>, <<DQ>>, <<BS>>, <<BS, "n">>, <<"a", NL, "b">>, <<SP, "a", SP>>,
     <<"\t">>, <<NONASCII>>, <<"{">>, <<"]", ",">>, CMAKE_SERVER_BEGIN_STR,
     CMAKE_SERVER_END_STR, <<NL>> \o CMAKE_SERVER_END_STR \o <<NL>>}

\* the requests written first: every request class, over the strings and ints
CodecRequests(cookie) ==
    {RequestHandShake(cookie, JStr(s), JStr(<<"b">>), JStr(<<"N">>), JInt(1), JLit("null")) :
        s \in CodecStrings}
    \cup {RequestHandShake(cookie, JStr(<<"s">>), JStr(<<>>), JStr(<<"N">>), JInt(n[1]), n[2]) :
            n \in {<<0, JInt(0)>>, <<10, JInt(7)>>, <<0 - 3, JInt(120)>>, <<1, JInt(0 - 1)>>}}
    \cup {RequestConfigure(cookie, JList(<<JStr(s)>>)) : s \in CodecStrings}
    \cup {RequestConfigure(cookie, JList(<<JStr(<<DQ, BS>>), JStr(s)>>)) :
            s \in {<<>>, <<"a", NL, "b">>}}
    \cup {RequestConfigure(cookie, JLit("null")), RequestConfigure(cookie, JList(<<>>)),
          RequestCMakeInputs(cookie)}

\* the requests written after the first has been read back
CodecLater(cookie) ==
    {RequestCMakeInputs(cookie),
     RequestConfigure(cookie, JList(<<JStr(CMAKE_SERVER_END_STR), JStr(<<DQ, NL>>)>>))}

InitCodec ==
    /\ proc = "Popen" /\ child = "running" /\ out_open = TRUE /\ stdout = <<>>
    /\ cookie_counter = 1 /\ cookies = <<gen_cookie(1)>>
    /\ request \in CodecRequests(gen_cookie(1))
    /\ pc = "codec_write" /\ api = "none" /\ scope = "none" /\ begin = FALSE
    /\ rawData = <<>> /\ raw_ret = NoRawRet /\ query_ret = NoMessage /\ result = NoMessage
    /\ exc = NoExc /\ log = <<>> /\ stdin_buf = <<>> /\ child_in = <<>> /\ nframes = 0
    /\ answers = <<>> /\ outstanding = <<>>
    /\ trail = [op |-> "init", how |-> "returned"] /\ closes = <<>>
    /\ SynthIdle /\ InitIdle /\ ConvIdle /\ AnaIdle

\* writeMessage(request), its bytes arriving on the stream readMessageRaw reads
CodecWrite ==
    /\ pc = "codec_write"
    /\ LET bytes == writeMessage(request)
       IN  IF Raised(bytes)
           THEN /\ exc' = bytes.exc /\ pc' = "codec_done"
                /\ UNCHANGED <<stdout, child_in>>
           ELSE /\ exc' = NoExc /\ pc' = "codec_read"
                /\ stdout' = stdout \o bytes.val /\ child_in' = bytes.val
    /\ begin' = FALSE /\ rawData' = <<>>
    /\ UNCHANGED <<proc, cookie_counter, api, scope, request, raw_ret, query_ret, result, log,
                   stdin_buf, child, out_open, nframes, cookies, answers, outstanding, trail,
                   closes, synthVars, initVars, convVars, anaVars>>

\* the next request is constructed
CodecPick ==
    /\ pc = "codec_done" /\ exc = NoExc /\ cookie_counter < MaxRequests
    /\ cookie_counter' = cookie_counter + 1
    /\ cookies' = Append(cookies, gen_cookie(cookie_counter + 1))
    /\ request' \in CodecLater(gen_cookie(cookie_counter + 1))
    /\ pc' = "codec_write" /\ result' = NoMessage
    /\ UNCHANGED <<proc, api, scope, begin, rawData, raw_ret, query_ret, exc, log, stdin_buf,
                   child, child_in, stdout, out_open, nframes, answers, outstanding, trail,
                   closes, synthVars, initVars, convVars, anaVars>>

NextCodec ==
    \/ CodecWrite
    \/ ReadStep
    \/ CodecPick

SpecCodec == InitCodec /\ [][NextCodec]_vars

-----------------------------------------------------------------------------
(* interpreter.py: CMakeInterpreter.pretend_to_be_meson                     *)

\* CMAKE_TGT_TYPE_MAP.get(type): "None" for a type the map lacks
CMAKE_TGT_TYPE_MAP(type) ==
    CASE type = "STATIC_LIBRARY" -> "static_library"
      [] type = "MODULE_LIBRARY" -> "shared_module"
      [] type = "SHARED_LIBRARY" -> "shared_library"
      [] type = "EXECUTABLE" -> "executable"
      [] type = "OBJECT_LIBRARY" -> "static_library"
      [] OTHER -> "None"

\* ConverterTarget.meson_func
meson_func(tgt) == CMAKE_TGT_TYPE_MAP(tgt.type)

\* The (name, full_name, type) of the targets a code model is drawn from: two
\* targets share a name, two names differ in '-' and '_' only, one type has no
\* meson function
TargetMenu ==
    {[name |-> <<"a">>, full_name |-> "a", type |-> "EXECUTABLE",
      includes |-> <<".">>, sources |-> <<"a.c">>, generated |-> <<"g.c">>],
     [name |-> <<"l", "-", "c">>, full_name |-> "libl-c.a", type |-> "STATIC_LIBRARY",
      includes |-> <<"inc", ".">>, sources |-> <<"l.c">>, generated |-> <<>>],
     [name |-> <<"l", "-", "c">>, full_name |-> "libl-c.so", type |-> "SHARED_LIBRARY",
      includes |-> <<"inc", ".">>, sources |-> <<"l.c">>, generated |-> <<>>],
     [name |-> <<"l", "_", "c">>, full_name |-> "libl_c.a", type |-> "STATIC_LIBRARY",
      includes |-> <<"inc2">>, sources |-> <<"m.c">>, generated |-> <<>>],
     [name |-> <<"o">>, full_name |-> "o", type |-> "OBJECT_LIBRARY",
      includes |-> <<".">>, sources |-> <<"o.c">>, generated |-> <<>>],
     [name |-> <<"i">>, full_name |-> "i", type |-> "INTERFACE_LIBRARY",
      includes |-> <<".">>, sources |-> <<>>, generated |-> <<>>]}

\* The edges analyse can leave on the targets sh: link_with entries come from
\* output_target_map (the last target of a full name), object_libs entries are
\* OBJECT_LIBRARY targets
EdgeCands(sh) ==
    {e \in {"link", "obj"} \X (1..Len(sh)) \X (1..Len(sh)) :
        IF e[1] = "link"
        THEN \A k \in (e[3] + 1)..Len(sh) : sh[k].full_name # sh[e[3]].full_name
        ELSE sh[e[3]].type = "OBJECT_LIBRARY"}

RECURSIVE EdgeSets(_, _)
\* the sets of at most k edges
EdgeSets(cands, k) ==
    IF k = 0 THEN {{}}
    ELSE LET r == EdgeSets(cands, k - 1) IN r \cup {x \cup {e} : x \in r, e \in cands}

RECURSIVE Ascending(_, _)
\* the members of the set of indices S that are at least i, in ascending order
Ascending(S, i) ==
    IF \A j \in S : j < i THEN <<>>
    ELSE IF i \in S THEN <<i>> \o Ascending(S, i + 1) ELSE Ascending(S, i + 1)

\* self.targets as analyse leaves it: targets of shape sh with the edges E;
\* link_with and object_libs hold indices into self.targets
TargetsOf(sh, E) ==
    [i \in 1..Len(sh) |->
        [name |-> sh[i].name, full_name |-> sh[i].full_name, type |-> sh[i].type,
         includes |-> sh[i].includes, sources |-> sh[i].sources,
         generated |-> sh[i].generated,
         link_with |-> Ascending({j \in 1..Len(sh) : <<"link", i, j>> \in E}, 1),
         object_libs |-> Ascending({j \in 1..Len(sh) : <<"obj", i, j>> \in E}, 1)]]

\* the target lists of at most n targets with at most k edges
TargetSets(n, k) ==
    UNION {{TargetsOf(sh, E) : E \in EdgeSets(EdgeCands(sh), k)} :
              sh \in UNION {[1..m -> TargetMenu] : m \in 1..n}}

\* base_name.replace('-', '_')
Replace(name) == [i \in 1..Len(name) |-> IF name[i] = "-" THEN "_" ELSE name[i]]

\* process_target, lines 417-422: the variable names of a target
VarNames(tgt) ==
    LET base_name == Replace(tgt.name)
    IN  [inc |-> base_name \o <<"_", "i", "n", "c">>,
         src |-> base_name \o <<"_", "s", "r", "c">>,
         dep |-> base_name \o <<"_", "d", "e", "p">>,
         tgt |-> base_name]

\* 'name in processed'
InProcessed(name) == \E k \in 1..Len(processed) : processed[k][1] = name

\* processed[name]
ProcessedGet(name) == processed[CHOOSE k \in 1..Len(processed) : processed[k][1] = name][2]

\* Fault model: no memo of the targets already emitted
Unprocessed_always(t) == TRUE

\* process_target and the loop of lines 463-465: 'if i.name not in processed'
Unprocessed(t) == ~InProcessed(targets[t].name)

\* Fault model: process_target without the loop over tgt.link_with
Deps_no_link_with(tgt) == tgt.object_libs

\* the targets process_target visits before it emits tgt
Deps(tgt) == tgt.link_with \o tgt.object_libs

\* the two for loops of process_target have run to their end in frame f
DepsDone(f) == f.idx > Len(Deps(targets[f.tgt]))

\* Fault model: the target is declared before its sources and include
\* directories are bound
Group_tgt_before_src(t) ==
    LET tgt == targets[t]
        v == VarNames(tgt)
        deps == [k \in 1..Len(Deps(tgt)) |-> ProcessedGet(targets[Deps(tgt)[k]].name).tgt]
    IN  << [kind |-> "tgt", var |-> v.tgt, of |-> t, func |-> meson_func(tgt),
            args |-> <<v.tgt>>, uses |-> <<v.src, v.inc>> \o deps],
           [kind |-> "inc", var |-> v.inc, of |-> t, func |-> "include_directories",
            args |-> tgt.includes, uses |-> <<>>],
           [kind |-> "src", var |-> v.src, of |-> t, func |-> "files",
            args |-> tgt.sources \o tgt.generated, uses |-> <<>>],
           [kind |-> "dep", var |-> v.dep, of |-> t, func |-> "declare_dependency",
            args |-> <<>>, uses |-> <<v.tgt, v.inc>>] >>

\* Fault model: the dependency is declared before the target it wraps
Group_dep_before_tgt(t) ==
    LET tgt == targets[t]
        v == VarNames(tgt)
        deps == [k \in 1..Len(Deps(tgt)) |-> ProcessedGet(targets[Deps(tgt)[k]].name).tgt]
    IN  << [kind |-> "inc", var |-> v.inc, of |-> t, func |-> "include_directories",
            args |-> tgt.includes, uses |-> <<>>],
           [kind |-> "src", var |-> v.src, of |-> t, func |-> "files",
            args |-> tgt.sources \o tgt.generated, uses |-> <<>>],
           [kind |-> "dep", var |-> v.dep, of |-> t, func |-> "declare_dependency",
            args |-> <<>>, uses |-> <<v.tgt, v.inc>>],
           [kind |-> "tgt", var |-> v.tgt, of |-> t, func |-> meson_func(tgt),
            args |-> <<v.tgt>>, uses |-> <<v.src, v.inc>> \o deps] >>

\* process_target, lines 453-459: the four nodes appended for target t;
\* 'of' records the target, 'args' the positional string arguments of the
\* call, 'uses' the identifiers the node refers to
Group(t) ==
    LET tgt == targets[t]
        v == VarNames(tgt)
        deps == [k \in 1..Len(Deps(tgt)) |-> ProcessedGet(targets[Deps(tgt)[k]].name).tgt]
    IN  << [kind |-> "inc", var |-> v.inc, of |-> t, func |-> "include_directories",
            args |-> tgt.includes, uses |-> <<>>],
           [kind |-> "src", var |-> v.src, of |-> t, func |-> "files",
            args |-> tgt.sources \o tgt.generated, uses |-> <<>>],
           [kind |-> "tgt", var |-> v.tgt, of |-> t, func |-> meson_func(tgt),
            args |-> <<v.tgt>>, uses |-> <<v.src, v.inc>> \o deps],
           [kind |-> "dep", var |-> v.dep, of |-> t, func |-> "declare_dependency",
            args |-> <<>>, uses |-> <<v.tgt, v.inc>>] >>

\* the analysed data pretend_to_be_meson may find: none, or a project name
\* with its languages
ProjectMenu == {<<"", <<>>>>, <<"p", <<"c", "cpp">>>>}

InitSynth ==
    /\ ClientInit /\ InitIdle /\ ConvIdle
    /\ targets \in TargetSets(MaxTargets, MaxEdges)
    /\ \E pm \in ProjectMenu : project_name = pm[1] /\ languages = pm[2]
    /\ AnalyseOff
    /\ lines = <<>> /\ processed = <<>> /\ stack = <<>> /\ ti = 0
    /\ spc = "start" /\ sexc = NoExc /\ lines1 = <<>>

\* Fault model: the memo of an earlier call is kept
StaleProcessed == processed

\* line 395: processed = {}
FreshProcessed == <<>>

\* pretend_to_be_meson, lines 343-395: the check that analyse has run, the
\* root block with the project call, and the empty memo
SynthBegin ==
    /\ spc = "start"
    /\ IF project_name = ""
       THEN /\ sexc' = Raise("CMakeException", "CMakeInterpreter was not analysed", <<>>).exc
            /\ spc' = "raised"
            /\ UNCHANGED <<lines, processed, ti>>
       ELSE /\ lines' = <<[kind |-> "project", var |-> <<>>, of |-> 0, func |-> "project",
                           args |-> <<project_name>> \o languages, uses |-> <<>>]>>
            /\ processed' = FreshProcessed
            /\ spc' = "loop" /\ ti' = 1
            /\ UNCHANGED sexc
    /\ UNCHANGED <<clientVars, initVars, convVars, anaVars, targets, stack, lines1>>

\* lines 463-467: one turn of 'for i in self.targets', or the return
SynthLoop ==
    /\ spc = "loop" /\ stack = <<>>
    /\ IF ti > Len(targets)
       THEN spc' = "returned" /\ UNCHANGED <<ti, stack>>
       ELSE /\ ti' = ti + 1
            /\ stack' = IF Unprocessed(ti) THEN <<[tgt |-> ti, idx |-> 1]>> ELSE stack
            /\ UNCHANGED spc
    /\ UNCHANGED <<clientVars, initVars, convVars, anaVars, targets, lines, processed, sexc,
                   lines1>>

\* lines 400-409: one turn of the loops over tgt.link_with and tgt.object_libs.
\* A call chain longer than the target list repeats an unprocessed target and
\* never ends: the interpreter stops it with RecursionError.
SynthDep ==
    /\ spc = "loop" /\ stack # <<>> /\ ~DepsDone(stack[Len(stack)])
    /\ LET f == stack[Len(stack)]
           i == Deps(targets[f.tgt])[f.idx]
           here == [stack EXCEPT ![Len(stack)].idx = f.idx + 1]
       IN  IF ~Unprocessed(i) THEN stack' = here /\ UNCHANGED <<spc, sexc>>
           ELSE IF Len(stack) > Len(targets)
                THEN /\ sexc' = Raise("RecursionError", "maximum recursion depth exceeded",
                                      <<>>).exc
                     /\ spc' = "raised" /\ stack' = <<>>
           ELSE stack' = Append(here, [tgt |-> i, idx |-> 1]) /\ UNCHANGED <<spc, sexc>>
    /\ UNCHANGED <<clientVars, initVars, convVars, anaVars, targets, lines, processed, ti,
                   lines1>>

\* lines 411-460: the target of the innermost call is emitted, or its type has
\* no meson function
SynthEmit ==
    /\ spc = "loop" /\ stack # <<>> /\ DepsDone(stack[Len(stack)])
    /\ LET t == stack[Len(stack)].tgt
           tgt == targets[t]
       IN  IF meson_func(tgt) = "None"
           THEN /\ sexc' = Raise("CMakeException", "Unknown target type {}", <<tgt.type>>).exc
                /\ spc' = "raised" /\ stack' = <<>>
                /\ UNCHANGED <<lines, processed>>
           ELSE /\ lines' = lines \o Group(t)
                /\ processed' = DictSet(processed, tgt.name, VarNames(tgt))
                /\ stack' = SubSeq(stack, 1, Len(stack) - 1)
                /\ UNCHANGED <<spc, sexc>>
    /\ UNCHANGED <<clientVars, initVars, convVars, anaVars, targets, ti, lines1>>

\* the caller keeps the statements the first call returned and calls
\* pretend_to_be_meson a second time on the same interpreter
SynthAgain ==
    /\ spc = "returned" /\ lines1 = <<>>
    /\ lines1' = lines
    /\ lines' = <<>> /\ stack' = <<>> /\ ti' = 0 /\ spc' = "start"
    /\ UNCHANGED <<clientVars, initVars, convVars, anaVars, targets, processed, sexc>>

NextSynth ==
    \/ SynthBegin
    \/ SynthLoop
    \/ SynthDep
    \/ SynthEmit
    \/ SynthAgain

SpecSynth == InitSynth /\ [][NextSynth]_vars

-----------------------------------------------------------------------------
(* interpreter.py: CMakeInterpreter.initialise                              *)

\* CMakeInterpreter.configure: 'found' tells whether find_cmake_binary finds
\* the executable, 'returncode' is the exit status of the cmake run
configure(found, returncode) ==
    IF ~found THEN Raise("CMakeException", "Unable to find CMake", <<>>)
    ELSE IF returncode # 0
         THEN Raise("CMakeException", "Failed to configure the CMake subproject", <<>>)
    ELSE Return(NoMessage)

\* the request initialise hands to query_checked at the place 'at', and the
\* place that follows
InitRequests(at, cookie) ==
    CASE at = "q_configure" -> [req |-> RequestConfigure(cookie, JLit("null")), then |-> "q_compute"]
      [] at = "q_compute" -> [req |-> RequestCompute(cookie), then |-> "q_inputs"]
      [] at = "q_inputs" -> [req |-> RequestCMakeInputs(cookie), then |-> "q_codemodel"]
      [] at = "q_codemodel" -> [req |-> RequestCodeModel(cookie), then |-> "exit"]

InitInitialise ==
    /\ ClientInit /\ SynthIdle /\ ConvIdle /\ AnaIdle
    /\ ipc = "configure" /\ bs_reply = NoMessage /\ codemodel = NoMessage

\* initialise, line 284: self.configure(extra_cmake_options)
InitConfigure ==
    /\ ipc = "configure"
    /\ \E found \in BOOLEAN, returncode \in {0, 1} :
          /\ exc' = configure(found, returncode).exc
          /\ ipc' = IF Raised(configure(found, returncode)) THEN "raised" ELSE "connect"
          /\ trail' = [op |-> "configure", how |-> How(configure(found, returncode).exc)]
    /\ log' = <<>>
    /\ UNCHANGED <<proc, cookie_counter, pc, api, scope, request, begin, rawData, raw_ret,
                   query_ret, result, stdin_buf, child, child_in, stdout, out_open, nframes,
                   cookies, answers, outstanding, closes, bs_reply, codemodel, synthVars,
                   convVars, anaVars>>

\* initialise, line 286: 'with self.client.connect():' is entered
InitConnect ==
    /\ ipc = "connect"
    /\ \E found \in BOOLEAN :
          /\ StartupEffect(found)
          /\ scope' = IF Raised(startup(found)) THEN "none" ELSE "with"
          /\ ipc' = IF Raised(startup(found)) THEN "raised" ELSE "handshake"
          /\ trail' = [op |-> "connect", how |-> IF Raised(startup(found)) THEN "raised"
                                                  ELSE "entered"]
    /\ UNCHANGED <<cookie_counter, pc, api, begin, rawData, cookies, bs_reply, codemodel,
                   synthVars, convVars, anaVars>>

\* initialise, lines 287-288: self.client.do_handshake(..., 1) is called
InitHandshake ==
    /\ ipc = "handshake" /\ pc = "idle"
    /\ pc' = "hs_read" /\ api' = "do_handshake" /\ ipc' = "q_configure"
    /\ begin' = FALSE /\ rawData' = <<>>
    /\ exc' = NoExc /\ result' = NoMessage /\ log' = <<>>
    /\ trail' = [op |-> "do_handshake", how |-> "running"]
    /\ UNCHANGED <<proc, cookie_counter, scope, request, raw_ret, query_ret, stdin_buf, child,
                   child_in, stdout, out_open, nframes, cookies, answers, outstanding, closes,
                   bs_reply, codemodel, synthVars, convVars, anaVars>>

\* initialise, lines 291, 294, 297 and 300: the next request is made and
\* query_checked is called with it; what the call before returned is bound
InitQuery ==
    /\ ipc \in {"q_configure", "q_compute", "q_inputs", "q_codemodel"} /\ pc = "idle"
    /\ cookie_counter' = cookie_counter + 1
    /\ cookies' = Append(cookies, gen_cookie(cookie_counter + 1))
    /\ QueryWrite(InitRequests(ipc, gen_cookie(cookie_counter + 1)).req)
    /\ api' = IF pc' = "q_read" THEN "query_checked" ELSE "none"
    /\ trail' = [op |-> "query_checked", how |-> IF pc' = "q_read" THEN "running" ELSE "raised"]
    /\ ipc' = InitRequests(ipc, gen_cookie(cookie_counter + 1)).then
    /\ bs_reply' = IF ipc = "q_codemodel" THEN result ELSE bs_reply
    /\ UNCHANGED <<proc, scope, raw_ret, child, stdout, out_open, nframes, closes, codemodel,
                   synthVars, convVars, anaVars>>

\* initialise, the end of the with block (shutdown in connect's finally) and,
\* when no exception is on its way, lines 302-306: bs_reply is read and the
\* code model stored
InitExit ==
    /\ scope = "with" /\ (pc = "finally" \/ (pc = "idle" /\ ipc = "exit"))
    /\ \E timeout \in BOOLEAN :
          /\ timeout => (proc # "None" /\ child = "running")
          /\ ShutdownEffect(timeout)
          /\ LET e == IF shutdown(timeout).exc # NoExc THEN shutdown(timeout).exc
                      ELSE IF pc = "finally" THEN exc
                      ELSE IF bs_reply.cls # "ReplyCMakeInputs"
                           THEN Raise("AttributeError", "src_dir", <<>>).exc
                      ELSE NoExc
             IN  /\ exc' = e
                 /\ ipc' = IF e = NoExc THEN "done" ELSE "raised"
                 /\ codemodel' = IF e = NoExc THEN result ELSE codemodel
    /\ pc' = "idle" /\ scope' = "none"
    /\ trail' = [op |-> "connect", how |-> "exit"]
    /\ UNCHANGED <<cookie_counter, api, request, begin, rawData, raw_ret, query_ret, result,
                   child_in, nframes, cookies, answers, outstanding, bs_reply, synthVars,
                   convVars, anaVars>>

\* the CMake server does what the protocol expects of it: it greets a reader
\* of the first message with hello and answers the running request with a
\* reply of the request's kind
ServerReply ==
    /\ child = "running" /\ out_open /\ stdout = <<>> /\ pc \in {"hs_read", "q_read"}
    /\ LET menu == Menu
           val == IF pc = "hs_read" THEN menu[6] ELSE menu[1]
       IN  /\ stdout' = ChildFrame(val, "whole")
           /\ answers' = IF IsAnswer(val, request) THEN Append(answers, val) ELSE answers
    /\ UNCHANGED <<proc, cookie_counter, pc, api, scope, request, begin, rawData, raw_ret,
                   query_ret, result, exc, log, stdin_buf, child, child_in, out_open, nframes,
                   cookies, outstanding, trail, closes, synthVars, initVars, convVars, anaVars>>

NextInit ==
    \/ InitConfigure
    \/ InitConnect
    \/ InitHandshake
    \/ HandshakeQuery
    \/ InitQuery
    \/ InitExit
    \/ ReadStep
    \/ ServerReply
    \/ ChildEmit

SpecInit == InitInitialise /\ [][NextInit]_vars

-----------------------------------------------------------------------------
(* interpreter.py: ConverterTarget.__init__ and the flag extraction of     *)
(* ConverterTarget.postprocess                                             *)

MaxGroups == 2       \* file groups of one code model target
MaxFlags == 2        \* flags of one file group

\* str.lower()
Lower(s) ==
    LET up == <<"A", "B", "C", "D", "E", "F", "G", "H", "I", "J", "K", "L", "M",
                "N", "O", "P", "Q", "R", "S", "T", "U", "V", "W", "X", "Y", "Z">>
        lo == <<"a", "b", "c", "d", "e", "f", "g", "h", "i", "j", "k", "l", "m",
                "n", "o", "p", "q", "r", "s", "t", "u", "v", "w", "x", "y", "z">>
    IN  [k \in 1..Len(s) |->
            IF \E n \in 1..26 : up[n] = s[k]
            THEN lo[CHOOSE n \in 1..26 : up[n] = s[k]] ELSE s[k]]

\* the meson language and the CMake language of each entry
CMAKE_LANGUAGE_MAP ==
    << << <<"c">>, <<"C">> >>,
       << <<"c", "p", "p">>, <<"C", "X", "X">> >>,
       << <<"c", "u", "d", "a">>, <<"C", "U", "D", "A">> >>,
       << <<"c", "s">>, <<"C", "S", "h", "a", "r", "p">> >>,
       << <<"j", "a", "v", "a">>, <<"J", "a", "v", "a">> >>,
       << <<"f", "o", "r", "t", "r", "a", "n">>, <<"F", "o", "r", "t", "r", "a", "n">> >>,
       << <<"s", "w", "i", "f", "t">>, <<"S", "w", "i", "f", "t">> >> >>

\* ConverterTarget.lang_cmake_to_meson: {val.lower(): key for key, val in ...}
lang_cmake_to_meson ==
    [n \in 1..Len(CMAKE_LANGUAGE_MAP) |->
        <<Lower(CMAKE_LANGUAGE_MAP[n][2]), CMAKE_LANGUAGE_MAP[n][1]>>]

\* ConverterTarget.lang_cmake_to_meson.get(i.language.lower(), 'c')
MesonLanguage(language) ==
    LET d == JDict(lang_cmake_to_meson)
        key == Lower(language)
    IN  IF DictHas(d, key) THEN DictGet(d, key) ELSE <<"c">>

\* lines 98-99: 'args = i.flags' binds the list of the file group itself and
\* 'args += [...]' extends that list in place
ArgsOfGroup(i) == i.flags \o [k \in 1..Len(i.defines) |-> <<"-", "D">> \o i.defines[k]]

\* the file groups after the loop 'for i in target.files': i.flags is args
FilesAfter(files) == [k \in 1..Len(files) |-> [files[k] EXCEPT !.flags = ArgsOfGroup(files[k])]]

\* line 100: the tokens of args that self.compile_opts[lang] does not hold yet
NewArgs(args, have) == SelectSeq(args, LAMBDA x : ~InSeq(x, have))

RECURSIVE AddFiles(_, _)
\* the loop 'for i in target.files' on self.compile_opts (pairs <<lang, list>>)
AddFiles(opts, files) ==
    IF files = <<>> THEN opts
    ELSE LET i == Head(files)
             lang == MesonLanguage(i.language)
             have == IF DictHas(JDict(opts), lang) THEN DictGet(JDict(opts), lang) ELSE <<>>
         IN  AddFiles(DictSet(opts, lang, have \o NewArgs(ArgsOfGroup(i), have)), Tail(files))

\* ConverterTarget(target, env): the fields the flag extraction works on
ConverterTarget(target) ==
    [compile_opts |-> AddFiles(<<>>, target.files), override_options |-> <<>>, pie |-> FALSE]

\* s.startswith(p)
StartsWith(s, p) == Len(p) <= Len(s) /\ SubSeq(s, 1, Len(p)) = p

\* Fault model: a pattern that knows the one-dash spelling only
std_regex_match_one_dash(j) ==
    LET n == IF StartsWith(j, <<"-", "s", "t", "d", "=">>) THEN 5 ELSE 0
    IN  [m |-> n > 0, group2 |-> SubSeq(j, n + 1, Len(j))]

\* ConverterTarget.std_regex.match(j): whether the pattern matches at the start
\* of j, and group(2), the rest of j up to its first line break
std_regex_match(j) ==
    LET n == CASE StartsWith(j, <<"-", "-", "s", "t", "d", "=">>) -> 6
               [] StartsWith(j, <<"-", "s", "t", "d", "=">>) -> 5
               [] StartsWith(j, <<"/", "s", "t", "d", ":", "v">>) -> 6
               [] StartsWith(j, <<"/", "s", "t", "d", ":">>) -> 5
               [] OTHER -> 0
        rest == SubSeq(j, n + 1, Len(j))
        brk == {k \in 1..Len(rest) : rest[k] = "\n"}
    IN  [m |-> n > 0,
         group2 |-> IF brk = {} THEN rest
                    ELSE SubSeq(rest, 1, (CHOOSE k \in brk : \A o \in brk : k <= o) - 1)]

\* Fault model: a scan that records the standard and keeps the flag
ScanFlag_keep_std(i, j, st) ==
    LET m == std_regex_match(j)
    IN  IF m.m
        THEN [st EXCEPT !.override_options = @ \o <<i \o <<"_", "s", "t", "d", "=">> \o m.group2>>,
                        !.temp = Append(@, j)]
        ELSE IF j \in {<<"-", "f", "P", "I", "C">>, <<"-", "f", "p", "i", "c">>,
                       <<"-", "f", "P", "I", "E">>, <<"-", "f", "p", "i", "e">>}
        THEN [st EXCEPT !.pie = TRUE]
        ELSE [st EXCEPT !.temp = Append(@, j)]

\* postprocess, lines 124-130: one turn of 'for j in self.compile_opts[i]'
ScanFlag(i, j, st) ==
    LET m == std_regex_match(j)
    IN  IF m.m
        THEN [st EXCEPT !.override_options = @ \o <<i \o <<"_", "s", "t", "d", "=">> \o m.group2>>]
        ELSE IF j \in {<<"-", "f", "P", "I", "C">>, <<"-", "f", "p", "i", "c">>,
                       <<"-", "f", "P", "I", "E">>, <<"-", "f", "p", "i", "e">>}
        THEN [st EXCEPT !.pie = TRUE]
        ELSE [st EXCEPT !.temp = Append(@, j)]

RECURSIVE ScanFlags(_, _, _)
\* postprocess, lines 122-130: temp, override_options and pie after the loop
ScanFlags(i, flags, st) ==
    IF flags = <<>> THEN st ELSE ScanFlags(i, Tail(flags), ScanFlag(i, Head(flags), st))

RECURSIVE DetectStd(_, _)
\* postprocess, lines 117-132: 'for i in ['c', 'cpp']' over the languages left
DetectStd(tgt, langs) ==
    IF langs = <<>> THEN tgt
    ELSE LET i == Head(langs)
         IN  IF ~DictHas(JDict(tgt.compile_opts), i) THEN DetectStd(tgt, Tail(langs))
             ELSE LET st == ScanFlags(i, DictGet(JDict(tgt.compile_opts), i),
                                      [temp |-> <<>>,
                                       override_options |-> tgt.override_options,
                                       pie |-> tgt.pie])
                  IN  DetectStd([compile_opts |-> DictSet(tgt.compile_opts, i, st.temp),
                                 override_options |-> st.override_options,
                                 pie |-> st.pie],
                                Tail(langs))

\* the flags a file group of the code model may carry
FlagMenu ==
    { <<"-", "s", "t", "d", "=", "c">>, <<"-", "-", "s", "t", "d", "=", "g">>,
      <<"/", "s", "t", "d", ":", "v", "1">>, <<"-", "f", "P", "I", "C">>,
      <<"-", "f", "p", "i", "e">>, <<"-", "O">>, <<"-", "s", "t", "d", "x">> }

\* the file groups of a code model target: at most n groups of at most k flags
FileGroups(n, k) ==
    LET flags == UNION {[1..l -> FlagMenu] : l \in 0..k}
        group == [language : {<<"C">>, <<"C", "X", "X">>, <<"F", "o", "r", "t", "r", "a", "n">>},
                  flags : flags, defines : {<<>>, << <<"N">> >>}]
    IN  UNION {[1..l -> group] : l \in 0..n}

\* ConverterTarget(target, self.env) in analyse
ConvConstruct ==
    /\ cpc = 0
    /\ \E files \in FileGroups(MaxGroups, MaxFlags) :
          /\ ctgt' = ConverterTarget([files |-> files])
          /\ cfiles0' = files
          /\ cfiles' = FilesAfter(files)
    /\ cpc' = 1
    /\ UNCHANGED <<clientVars, synthVars, initVars, anaVars, cprev>>

\* the flag extraction of postprocess, applied to the target; cprev keeps the
\* target as it was before
ConvExtract ==
    /\ cpc \in {1, 2}
    /\ cprev' = ctgt
    /\ ctgt' = DetectStd(ctgt, << <<"c">>, <<"c", "p", "p">> >>)
    /\ cpc' = cpc + 1
    /\ UNCHANGED <<clientVars, synthVars, initVars, anaVars, cfiles, cfiles0>>

NextConv ==
    \/ ConvConstruct
    \/ ConvExtract

SpecConv == Init /\ [][NextConv]_vars

-----------------------------------------------------------------------------
(* interpreter.py: CMakeInterpreter.analyse, with ConverterTarget.__init__, *)
(* postprocess and process_object_libs; paths as posixpath treats them     *)

RECURSIVE SplitOn(_, _)
\* s.split(c) for a one-character separator c
SplitOn(s, c) ==
    IF ~InSeq(c, s) THEN <<s>>
    ELSE LET k == CHOOSE n \in 1..Len(s) : s[n] = c /\ \A o \in 1..(n - 1) : s[o] # c
         IN  <<SubSeq(s, 1, k - 1)>> \o SplitOn(SubSeq(s, k + 1, Len(s)), c)

\* s.endswith(w)
EndsWith(s, w) == Len(w) <= Len(s) /\ SubSeq(s, Len(s) - Len(w) + 1, Len(s)) = w

\* w in s, for two str
HasSubstring(s, w) == \E n \in 1..Len(s) : MatchAt(s, n, w)

\* os.path.isabs
isabs(x) == StartsWith(x, <<"/">>)

\* os.path.basename
basename(x) == LET parts == SplitOn(x, "/") IN parts[Len(parts)]

\* os.path.join of two paths
join(a, b) ==
    IF isabs(b) THEN b
    ELSE IF a = <<>> \/ EndsWith(a, <<"/">>) THEN a \o b
    ELSE a \o <<"/">> \o b

RECURSIVE NormComps(_, _, _)
\* the loop of posixpath.normpath over the components left, new_comps so far
NormComps(comps, new_comps, initial_slashes) ==
    IF comps = <<>> THEN new_comps
    ELSE LET comp == Head(comps)
         IN  IF comp = <<>> \/ comp = <<".">> THEN NormComps(Tail(comps), new_comps, initial_slashes)
             ELSE IF \/ comp # <<".", ".">>
                     \/ (initial_slashes = 0 /\ new_comps = <<>>)
                     \/ (new_comps # <<>> /\ new_comps[Len(new_comps)] = <<".", ".">>)
             THEN NormComps(Tail(comps), Append(new_comps, comp), initial_slashes)
             ELSE IF new_comps # <<>>
             THEN NormComps(Tail(comps), SubSeq(new_comps, 1, Len(new_comps) - 1),
                            initial_slashes)
             ELSE NormComps(Tail(comps), new_comps, initial_slashes)

\* os.path.normpath
normpath(x) ==
    IF x = <<>> THEN <<".">>
    ELSE LET initial_slashes ==
                 IF ~StartsWith(x, <<"/">>) THEN 0
                 ELSE IF StartsWith(x, <<"/", "/">>) /\ ~StartsWith(x, <<"/", "/", "/">>)
                 THEN 2 ELSE 1
             comps == NormComps(SplitOn(x, "/"), <<>>, initial_slashes)
             path == [k \in 1..initial_slashes |-> "/"] \o JoinWith(<<"/">>, comps)
         IN  IF path = <<>> THEN <<".">> ELSE path

\* the components of a path that posixpath.commonpath and relpath compare
PathComps(x) == SelectSeq(SplitOn(x, "/"), LAMBDA c : c # <<>> /\ c # <<".">>)

\* os.path.commonprefix of two component lists
CommonPrefix(a, b) ==
    LET n == CHOOSE m \in 0..Len(a) :
                 /\ m <= Len(b) /\ SubSeq(a, 1, m) = SubSeq(b, 1, m)
                 /\ \A o \in (m + 1)..Len(a) : o > Len(b) \/ SubSeq(a, 1, o) # SubSeq(b, 1, o)
    IN  SubSeq(a, 1, n)

\* os.path.commonpath([a, b]) of two absolute paths
commonpath(a, b) == <<"/">> \o JoinWith(<<"/">>, CommonPrefix(PathComps(a), PathComps(b)))

\* os.path.relpath(path, start) of two absolute paths
relpath(path, start) ==
    LET start_list == SelectSeq(SplitOn(normpath(start), "/"), LAMBDA c : c # <<>>)
        path_list == SelectSeq(SplitOn(normpath(path), "/"), LAMBDA c : c # <<>>)
        i == Len(CommonPrefix(start_list, path_list))
        rel_list == [k \in 1..(Len(start_list) - i) |-> <<".", ".">>]
                    \o SubSeq(path_list, i + 1, Len(path_list))
    IN  IF rel_list = <<>> THEN <<".">> ELSE JoinWith(<<"/">>, rel_list)

\* CMAKE_TGT_SKIP, line 56
CMAKE_TGT_SKIP == {"UTILITY"}

\* the directories of the subproject: the arguments of CMakeInterpreter(...)
\* and env.get_build_dir()
get_build_dir == <<"/", "b">>
subdir == <<"d">>
src_dir == <<"/", "s">>
install_prefix == <<"/", "p">>

\* CMakeInterpreter.__init__, lines 213-214
build_dir_rel == join(subdir, <<"_", "_", "C", "M", "a", "k", "e", "_", "b", "u", "i", "l", "d">>)
build_dir == join(get_build_dir, build_dir_rel)

(* The code model (ReplyCodeModel): configs, each with projects [name,     *)
(* targets]; a target (CMakeTarget) has name, full_name, type, src_dir,    *)
(* build_dir, install, install_paths, link_libraries, link_flags,          *)
(* link_lang_flags, artifacts and files; a file group (CMakeFileGroup) has *)
(* language, flags, defines, includes, sources and is_generated.           *)

\* an executable: a standard flag, a define, include directories in and out of
\* the trees, a custom command rule, the objects of the object library among
\* its generated sources, and link libraries of every class
ForeignApp ==
    [name |-> <<"a", "p", "p">>, full_name |-> <<"a", "p", "p">>,
     type |-> "EXECUTABLE",
     src_dir |-> <<"/", "s">>,
     build_dir |-> build_dir,
     install |-> TRUE,
     install_paths |-> << <<"/", "p", "/", "b", "i", "n">> >>,
     link_libraries |-> << <<"l", "i", "b", "c", ".", "a">>, <<"/", "u", "/", "l", "i",
                           "b", "c", ".", "a">>, <<"-", "W", "l", ",", "-", "r", "p", "a",
                           "t", "h", ",", "/", "l", "i", "b", "c", ".", "a">>, <<"x", "/",
                           "l", "i", "b", "c", ".", "a">>, <<"-", "l", "m">>, <<"u", "t",
                           "i", "l">> >>,
     link_flags |-> << <<"-", "s">> >>,
     link_lang_flags |-> << <<"-", "g">> >>,
     artifacts |-> << build_dir \o <<"/", "a", "p", "p">> >>,
     files |->
       << [language |-> <<"C">>,
         flags |-> << <<"-", "s", "t", "d", "=", "c", "1", "1">>, <<"-", "O">> >>,
         defines |-> << <<"N">> >>,
         includes |-> << <<"/", "s", "/", "i", "n", "c">>, build_dir \o <<"/", "g", "e",
                         "n">>, <<"/", "u", "/", "i", "n", "c">>, <<"/", "s", "/", "i",
                         "n", "c">> >>,
         sources |-> << <<"a", ".", "c">>, <<"x", ".", "r", "u", "l", "e">> >>,
         is_generated |-> FALSE],
          [language |-> <<"C">>,
         flags |-> <<>>,
         defines |-> <<>>,
         includes |-> <<>>,
         sources |-> << build_dir \o <<"/", "h", ".", "c", ".", "o">>,
                        build_dir \o <<"/", "j", ".", "c", ".", "o">>,
                        build_dir \o <<"/", "g", ".", "c">> >>,
         is_generated |-> TRUE] >>]

\* a static library the executable links by the name of its file; one of its
\* include directories is in the build tree outside the subproject
ForeignCore ==
    [name |-> <<"c", "o", "r", "e">>, full_name |-> <<"l", "i", "b", "c", ".", "a">>,
     type |-> "STATIC_LIBRARY",
     src_dir |-> <<"/", "s", "/", "c">>,
     build_dir |-> build_dir \o <<"/", "c">>,
     install |-> TRUE,
     install_paths |-> << <<"/", "o", "p", "t", "/", "l", "i", "b">> >>,
     link_libraries |-> << <<"-", "l", "m">> >>,
     link_flags |-> <<>>,
     link_lang_flags |-> <<>>,
     artifacts |-> << build_dir \o <<"/", "c", "/", "l", "i", "b", "c", ".", "a">> >>,
     files |->
       << [language |-> <<"C", "X", "X">>,
         flags |-> << <<"-", "f", "P", "I", "C">> >>,
         defines |-> <<>>,
         includes |-> << <<"/", "s", "/", "c">>, <<"/", "b", "/", "i">> >>,
         sources |-> << <<"/", "s", "/", "c", "/", "c", "o", "r", "e", ".", "c", "p",
                        "p">> >>,
         is_generated |-> FALSE] >>]

\* a shared library with the same file name in another directory
ForeignCore2 ==
    [name |-> <<"c", "o", "r", "e", "2">>, full_name |-> <<"l", "i", "b", "c", ".", "a">>,
     type |-> "SHARED_LIBRARY",
     src_dir |-> <<"/", "s", "/", "e">>,
     build_dir |-> build_dir \o <<"/", "e">>,
     install |-> FALSE,
     install_paths |-> <<>>,
     link_libraries |-> << <<"c", "/", "l", "i", "b", "c", ".", "a">> >>,
     link_flags |-> <<>>,
     link_lang_flags |-> <<>>,
     artifacts |-> << build_dir \o <<"/", "e", "/", "l", "i", "b", "c", ".", "a">> >>,
     files |->
       << [language |-> <<"C">>,
         flags |-> <<>>,
         defines |-> << <<"N">>, <<"M">> >>,
         includes |-> <<>>,
         sources |-> << <<"e", ".", "c">> >>,
         is_generated |-> FALSE] >>]

\* an object library with two sources and an object among its generated sources
ForeignObj ==
    [name |-> <<"o", "b", "j">>, full_name |-> <<"o", "b", "j">>,
     type |-> "OBJECT_LIBRARY",
     src_dir |-> <<"/", "s">>,
     build_dir |-> build_dir,
     install |-> FALSE,
     install_paths |-> <<>>,
     link_libraries |-> <<>>,
     link_flags |-> <<>>,
     link_lang_flags |-> <<>>,
     artifacts |-> << build_dir \o <<"/", "h", ".", "c", ".", "o">> >>,
     files |->
       << [language |-> <<"C">>,
         flags |-> << <<"-", "O">> >>,
         defines |-> <<>>,
         includes |-> <<>>,
         sources |-> << <<"h", ".", "c">>, <<"j", ".", "c">> >>,
         is_generated |-> FALSE],
          [language |-> <<"C">>,
         flags |-> << <<"-", "O">> >>,
         defines |-> <<>>,
         includes |-> <<>>,
         sources |-> << build_dir \o <<"/", "k", ".", "o">> >>,
         is_generated |-> TRUE] >>]

\* a custom target
ForeignUtil ==
    [name |-> <<"u", "t", "i", "l">>, full_name |-> <<"u", "t", "i", "l">>,
     type |-> "UTILITY",
     src_dir |-> <<"/", "s">>,
     build_dir |-> build_dir,
     install |-> FALSE,
     install_paths |-> <<>>,
     link_libraries |-> <<>>,
     link_flags |-> <<>>,
     link_lang_flags |-> <<>>,
     artifacts |-> <<>>,
     files |->
       << [language |-> <<"C">>,
         flags |-> <<>>,
         defines |-> << <<"N">> >>,
         includes |-> <<>>,
         sources |-> << <<"u", ".", "r", "u", "l", "e">> >>,
         is_generated |-> TRUE] >>]

ForeignMenu == {ForeignApp, ForeignCore, ForeignCore2, ForeignObj, ForeignUtil}

\* a code model of one configuration: the targets ts, the first s of them in a
\* project without a name and the others in the project "p"
CodeModelOf(ts, s) ==
    [cls |-> "ReplyCodeModel",
     configs |-> << [projects |-> << [name |-> "", targets |-> SubSeq(ts, 1, s)],
                                     [name |-> "p", targets |-> SubSeq(ts, s + 1, Len(ts))] >>] >>]

\* a code model of one configuration whose one project has no name
CodeModelNameless(ts) ==
    [cls |-> "ReplyCodeModel",
     configs |-> << [projects |-> << [name |-> "", targets |-> ts] >>] >>]

\* the code models of at most n targets
CodeModels(n) ==
    UNION {{CodeModelOf(ts, s) : s \in {0, 1} \cap (0..Len(ts))} \cup {CodeModelNameless(ts)} :
              ts \in UNION {[1..m -> ForeignMenu] : m \in 0..n}}

\* the projects and the targets of a code model in the order the loops of
\* lines 318-322 visit them
CodeModelProjects(cm) == Concat([c \in 1..Len(cm.configs) |-> cm.configs[c].projects])
CodeModelTargets(cm) ==
    Concat([p \in 1..Len(CodeModelProjects(cm)) |-> CodeModelProjects(cm)[p].targets])

\* Fault model: no target type is left out
Skipped_none(k) == FALSE

\* line 323: 'k.type not in CMAKE_TGT_SKIP' fails
Skipped(k) == k.type \in CMAKE_TGT_SKIP

\* Fault model: is_generated is not looked at
InitFiles_all_sources(self, files) ==
    [languages |-> <<>>, includes |-> <<>>,
     sources |-> Concat([g \in 1..Len(files) |-> files[g].sources]), generated |-> <<>>]

RECURSIVE InitFiles(_, _)
\* ConverterTarget.__init__, lines 89-109, on languages, includes, sources and
\* generated (self.compile_opts is AddFiles)
InitFiles(self, files) ==
    IF files = <<>> THEN self
    ELSE LET i == Head(files)
             lang == MesonLanguage(i.language)
         IN  InitFiles([languages |-> IF InSeq(lang, self.languages) THEN self.languages
                                      ELSE Append(self.languages, lang),
                        includes |-> self.includes \o NewArgs(i.includes, self.includes),
                        sources |-> IF i.is_generated THEN self.sources
                                    ELSE self.sources \o i.sources,
                        generated |-> IF i.is_generated THEN self.generated \o i.sources
                                      ELSE self.generated],
                       Tail(files))

\* ConverterTarget.__init__ for the target object 'target'; id is the identity
\* of the new object and origin the place of 'target' in the code model
NewConverterTarget(target, id, origin) ==
    LET f == InitFiles([languages |-> <<>>, includes |-> <<>>, sources |-> <<>>,
                        generated |-> <<>>], target.files)
    IN  [id |-> id, origin |-> origin,
         artifacts |-> target.artifacts, src_dir |-> target.src_dir,
         build_dir |-> target.build_dir, name |-> target.name,
         full_name |-> target.full_name, type |-> target.type,
         install |-> target.install,
         install_dir |-> IF target.install_paths # <<>> THEN target.install_paths[1] ELSE <<>>,
         link_libraries |-> target.link_libraries,
         link_flags |-> target.link_flags \o target.link_lang_flags,
         languages |-> f.languages, sources |-> f.sources, generated |-> f.generated,
         includes |-> f.includes, link_with |-> <<>>, object_libs |-> <<>>,
         compile_opts |-> ConverterTarget(target).compile_opts,
         pie |-> FALSE, override_options |-> <<>>]

\* the target objects of the code model that lines 322-324 convert, as places
\* in CodeModelTargets
Converted(cm) ==
    SelectSeq([k \in 1..Len(CodeModelTargets(cm)) |-> k],
              LAMBDA k : ~Skipped(CodeModelTargets(cm)[k]))

\* the code model after the loop of lines 318-324: the file groups of the
\* targets a ConverterTarget was made of are as __init__ leaves them
CodeModelAfter(cm) ==
    [cm EXCEPT !.configs =
        [c \in 1..Len(cm.configs) |->
            [cm.configs[c] EXCEPT !.projects =
                [p \in 1..Len(cm.configs[c].projects) |->
                    [cm.configs[c].projects[p] EXCEPT !.targets =
                        [k \in 1..Len(cm.configs[c].projects[p].targets) |->
                            LET t == cm.configs[c].projects[p].targets[k]
                            IN  IF Skipped(t) THEN t
                                ELSE [t EXCEPT !.files = FilesAfter(t.files)]]]]]]]

\* lines 320-321: the name of the first project that has one
FirstProjectName(cm) ==
    LET named == SelectSeq(CodeModelProjects(cm), LAMBDA j : j.name # "")
    IN  IF named = <<>> THEN "" ELSE named[1].name

\* Fault model: the map holds the targets of no pass
output_target_map_copies(tgts) == [k \in 1..Len(tgts) |-> <<tgts[k].full_name, 0>>]

\* line 326: {x.full_name: x for x in self.targets}, as pairs of a full name
\* and the identity of the target (the later target of a full name wins)
output_target_map(tgts) == [k \in 1..Len(tgts) |-> <<tgts[k].full_name, tgts[k].id>>]

\* output_target_map[basename]
MapGet(map, key) ==
    map[CHOOSE k \in 1..Len(map) :
            map[k][1] = key /\ \A o \in (k + 1)..Len(map) : map[o][1] # key][2]

\* 'basename in output_target_map'
MapHas(map, key) == \E k \in 1..Len(map) : map[k][1] = key

\* Fault model: an absolute path is resolved like a name
ClassifyLink_any_path(i, map) ==
    IF HasSubstring(i, <<",", "-", "r", "p", "a", "t", "h", ",">>) THEN "drop"
    ELSE IF MapHas(map, basename(i)) THEN "link"
    ELSE "keep"

\* postprocess, lines 138-146: what one turn of the loop does with the entry i
ClassifyLink(i, map) ==
    IF HasSubstring(i, <<",", "-", "r", "p", "a", "t", "h", ",">>) THEN "drop"
    ELSE IF ~isabs(i) /\ MapHas(map, basename(i)) THEN "link"
    ELSE "keep"

RECURSIVE FixLinkLibraries(_, _, _)
\* postprocess, lines 135-147: temp and self.link_with after the loop over the
\* entries libs
FixLinkLibraries(libs, map, st) ==
    IF libs = <<>> THEN st
    ELSE LET i == Head(libs)
             how == ClassifyLink(i, map)
         IN  FixLinkLibraries(Tail(libs), map,
                 CASE how = "drop" -> st
                   [] how = "link" ->
                          [st EXCEPT !.link_with = Append(@, MapGet(map, basename(i)))]
                   [] OTHER -> [st EXCEPT !.temp = Append(@, i)])

\* postprocess, lines 150-157: rel_path(x) for the target self
rel_path(self, x) ==
    LET y == IF ~isabs(x) THEN normpath(join(self.src_dir, x)) ELSE x
    IN  IF isabs(y) /\ commonpath(y, src_dir) = src_dir THEN relpath(y, src_dir)
        ELSE IF isabs(y) /\ commonpath(y, get_build_dir) = get_build_dir
        THEN relpath(y, join(get_build_dir, subdir))
        ELSE y

RECURSIVE Uniq(_)
\* the members of q, each at its first place
Uniq(q) ==
    IF q = <<>> THEN <<>>
    ELSE LET r == Uniq(SubSeq(q, 1, Len(q) - 1))
         IN  IF InSeq(q[Len(q)], r) THEN r ELSE Append(r, q[Len(q)])

\* list(set(q)): the members of q in the order this process iterates the set.
\* The order follows the hashes of the strings, which differ from process to
\* process: in one process it happens to be the order of insertion, in the
\* other the shorter strings come first
ListOfSet(q) ==
    LET u == Uniq(q)
        longest == IF u = <<>> THEN 0
                   ELSE Len(u[CHOOSE k \in 1..Len(u) : \A o \in 1..Len(u) : Len(u[o]) <= Len(u[k])])
    IN  IF hashseed = 0 THEN u
        ELSE Concat([l \in 1..(longest + 1) |-> SelectSeq(u, LAMBDA x : Len(x) = l - 1)])

\* x.endswith('.rule') fails
NoRule(x) == ~EndsWith(x, <<".", "r", "u", "l", "e">>)

\* ConverterTarget.postprocess(output_target_map, self.src_dir, self.subdir,
\* self.install_prefix)
postprocess(self, map) ==
    LET std == DetectStd([compile_opts |-> self.compile_opts,
                          override_options |-> self.override_options, pie |-> self.pie],
                         << <<"c">>, <<"c", "p", "p">> >>)
        lnk == FixLinkLibraries(self.link_libraries, map,
                                [temp |-> <<>>, link_with |-> self.link_with])
        tgt_build_dir_rel == relpath(self.build_dir, join(get_build_dir, subdir))
        incs == ListOfSet([k \in 1..Len(ListOfSet(self.includes)) |->
                               rel_path(self, ListOfSet(self.includes)[k])]
                          \o <<tgt_build_dir_rel>>)
        srcs == SelectSeq(self.sources, NoRule)
        gens == SelectSeq(self.generated, NoRule)
    IN  [self EXCEPT
            !.compile_opts = std.compile_opts,
            !.override_options = std.override_options,
            !.pie = std.pie,
            !.link_with = lnk.link_with,
            !.link_libraries = lnk.temp,
            !.includes = IF InSeq(<<".">>, incs) THEN incs ELSE Append(incs, <<".">>),
            !.sources = [k \in 1..Len(srcs) |-> rel_path(self, srcs[k])],
            !.generated = [k \in 1..Len(gens) |-> rel_path(self, gens[k])],
            !.install_dir =
                IF /\ self.install_dir # <<>> /\ isabs(self.install_dir)
                   /\ commonpath(self.install_dir, install_prefix) = install_prefix
                THEN relpath(self.install_dir, install_prefix)
                ELSE self.install_dir]

\* x.endswith('.o')
IsObject(x) == EndsWith(x, <<".", "o">>)

\* the target object with the identity id
ById(tgts, id) == tgts[CHOOSE k \in 1..Len(tgts) : tgts[k].id = id]

\* the place in tgts of the target object with the identity id (0 if none)
PlaceOf(tgts, id) ==
    IF \E n \in 1..Len(tgts) : tgts[n].id = id
    THEN CHOOSE n \in 1..Len(tgts) : tgts[n].id = id ELSE 0

\* Fault model: objects are taken out only when an object library matched
process_object_libs_keep_unmatched(tgts, n, obj_target_list) ==
    LET self == tgts[n]
        objs == SelectSeq(self.generated, IsObject)
        temp == [k \in 1..Len(objs) |-> basename(objs[k])]
        out_objects(i) == [k \in 1..Len(i.sources \o i.generated) |->
                               basename((i.sources \o i.generated)[k] \o <<".", "o">>)]
        found == SelectSeq(obj_target_list,
                           LAMBDA id : \E k \in 1..Len(out_objects(ById(tgts, id))) :
                                           InSeq(out_objects(ById(tgts, id))[k], temp))
    IN  IF found = <<>> THEN tgts
        ELSE [tgts EXCEPT ![n].generated = SelectSeq(self.generated, LAMBDA x : ~IsObject(x)),
                          ![n].object_libs = @ \o found]

\* Fault model: the inner loop goes on after a match
process_object_libs_no_break(tgts, n, obj_target_list) ==
    LET self == tgts[n]
        objs == SelectSeq(self.generated, IsObject)
        temp == [k \in 1..Len(objs) |-> basename(objs[k])]
        stripped == [tgts EXCEPT ![n].generated = SelectSeq(self.generated,
                                                            LAMBDA x : ~IsObject(x))]
        out_objects(i) == [k \in 1..Len(i.sources \o i.generated) |->
                               basename((i.sources \o i.generated)[k] \o <<".", "o">>)]
        matches(id) == SelectSeq(out_objects(ById(stripped, id)), LAMBDA j : InSeq(j, temp))
        found == Concat([o \in 1..Len(obj_target_list) |->
                            [k \in 1..Len(matches(obj_target_list[o])) |-> obj_target_list[o]]])
    IN  [stripped EXCEPT ![n].object_libs = @ \o found]

\* Fault model: no second pass
process_object_libs_none(tgts, n, obj_target_list) == tgts

\* ConverterTarget.process_object_libs(obj_target_list) for the target at place
\* n of tgts: the list tgts after the call
process_object_libs(tgts, n, obj_target_list) ==
    LET self == tgts[n]
        objs == SelectSeq(self.generated, IsObject)
        temp == [k \in 1..Len(objs) |-> basename(objs[k])]
        stripped == [tgts EXCEPT ![n].generated = SelectSeq(self.generated,
                                                            LAMBDA x : ~IsObject(x))]
        out_objects(i) == [k \in 1..Len(i.sources \o i.generated) |->
                               basename((i.sources \o i.generated)[k] \o <<".", "o">>)]
        found == SelectSeq(obj_target_list,
                           LAMBDA id : \E k \in 1..Len(out_objects(ById(stripped, id))) :
                                           InSeq(out_objects(ById(stripped, id))[k], temp))
    IN  [stripped EXCEPT ![n].object_libs = @ \o found]

MaxModel == 3        \* targets of one code model
MaxRuns == 2         \* calls of analyse on one interpreter

\* a CMakeInterpreter after initialise (or before it: no code model) on which
\* analyse is called
InitAnalyse ==
    /\ ClientInit /\ ConvIdle
    /\ targets = <<>> /\ lines = <<>> /\ processed = <<>> /\ stack = <<>> /\ ti = 0
    /\ spc = "off" /\ sexc = NoExc /\ lines1 = <<>>
    /\ ipc = "off" /\ bs_reply = NoMessage
    /\ codemodel \in CodeModels(MaxModel) \cup {NoMessage}
    /\ codemodel0 = codemodel
    /\ project_name = "" /\ languages = <<>>
    /\ apc = "start" /\ ai = 0 /\ object_libs = <<>> /\ nobj = 0 /\ aexc = NoExc
    /\ hashseed \in {0, 1} /\ arun = 0 /\ targets1 = <<>>

\* analyse, lines 309-327: the check that initialise has run, the cleared
\* data, and a ConverterTarget for every target of the code model that is
\* not skipped
AnalyseBegin ==
    /\ apc = "start"
    /\ IF codemodel = NoMessage
       THEN /\ aexc' = Raise("CMakeException", "CMakeInterpreter was not initialized", <<>>).exc
            /\ apc' = "raised"
            /\ UNCHANGED <<project_name, languages, targets, codemodel, nobj, object_libs, ai>>
       ELSE /\ project_name' = FirstProjectName(codemodel)
            /\ languages' = <<>>
            /\ targets' = [n \in 1..Len(Converted(codemodel)) |->
                              NewConverterTarget(
                                  CodeModelTargets(codemodel)[Converted(codemodel)[n]],
                                  nobj + n, Converted(codemodel)[n])]
            /\ codemodel' = CodeModelAfter(codemodel)
            /\ nobj' = nobj + Len(Converted(codemodel))
            /\ object_libs' = <<>>
            /\ apc' = "first" /\ ai' = 1
            /\ UNCHANGED aexc
    /\ UNCHANGED <<clientVars, convVars, ipc, bs_reply, lines, processed, stack, ti, spc,
                   sexc, lines1, hashseed, arun, targets1, codemodel0>>

\* lines 330-334: one turn of the first pass (the full names that make
\* output_target_map are the same before and after postprocess), or its end
AnalyseFirst ==
    /\ apc = "first"
    /\ IF ai > Len(targets)
       THEN /\ apc' = "second" /\ ai' = 1
            /\ UNCHANGED <<targets, object_libs, languages>>
       ELSE /\ targets' = [targets EXCEPT ![ai] = postprocess(@, output_target_map(targets))]
            /\ object_libs' = IF targets[ai].type = "OBJECT_LIBRARY"
                              THEN Append(object_libs, targets[ai].id) ELSE object_libs
            /\ languages' = languages \o NewArgs(targets[ai].languages, languages)
            /\ ai' = ai + 1
            /\ UNCHANGED apc
    /\ UNCHANGED <<clientVars, convVars, initVars, lines, processed, stack, ti, spc, sexc,
                   lines1, project_name, nobj, aexc, hashseed, arun, targets1, codemodel0>>

\* lines 337-340: one turn of the second pass, or the return of analyse
AnalyseSecond ==
    /\ apc = "second"
    /\ IF ai > Len(targets)
       THEN /\ apc' = "done" /\ arun' = arun + 1
            /\ targets1' = IF arun = 0 THEN targets ELSE targets1
            /\ UNCHANGED <<targets, ai>>
       ELSE /\ targets' = process_object_libs(targets, ai, object_libs)
            /\ ai' = ai + 1
            /\ UNCHANGED <<apc, arun, targets1>>
    /\ UNCHANGED <<clientVars, convVars, initVars, lines, processed, stack, ti, spc, sexc,
                   lines1, project_name, languages, object_libs, nobj, aexc, hashseed,
                   codemodel0>>

\* analyse is called again on the same interpreter
AnalyseAgain ==
    /\ apc = "done" /\ arun < MaxRuns
    /\ apc' = "start"
    /\ UNCHANGED <<clientVars, convVars, initVars, synthVars, project_name, languages, ai,
                   object_libs, nobj, aexc, hashseed, arun, targets1, codemodel0>>

NextAnalyse ==
    \/ AnalyseBegin
    \/ AnalyseFirst
    \/ AnalyseSecond
    \/ AnalyseAgain

SpecAnalyse == InitAnalyse /\ [][NextAnalyse]_vars

\* ---- analyse, then pretend_to_be_meson, on one interpreter

\* self.targets with the entries of link_with and object_libs, which analyse
\* holds as object identities, given as places in self.targets, the form
\* process_target is modelled on
AsPlaces(tgts) ==
    [n \in 1..Len(tgts) |->
        [tgts[n] EXCEPT
            !.link_with = [k \in 1..Len(tgts[n].link_with) |->
                              PlaceOf(tgts, tgts[n].link_with[k])],
            !.object_libs = [k \in 1..Len(tgts[n].object_libs) |->
                                PlaceOf(tgts, tgts[n].object_libs[k])]]]

\* the caller calls pretend_to_be_meson: before analyse, after analyse has
\* raised, or after it has returned
PretendCall ==
    /\ spc = "off" /\ apc \in {"start", "done", "raised"}
    /\ spc' = "start"
    /\ targets' = AsPlaces(targets)
    /\ UNCHANGED <<clientVars, initVars, convVars, anaVars, lines, processed, stack, ti,
                   sexc, lines1>>

\* the calls of one caller do not overlap: analyse runs before the call of
\* pretend_to_be_meson
NextPhases ==
    \/ spc = "off" /\ AnalyseBegin
    \/ spc = "off" /\ AnalyseFirst
    \/ spc = "off" /\ AnalyseSecond
    \/ spc = "off" /\ AnalyseAgain
    \/ PretendCall
    \/ SynthBegin
    \/ SynthLoop
    \/ SynthDep
    \/ SynthEmit

SpecPhases == InitAnalyse /\ [][NextPhases]_vars

-----------------------------------------------------------------------------
(* Properties of the protocol session (under Spec)                         *)

\* C1: when query has returned, the message it returned carries the cookie of
\* the request and the kind 'reply' or 'error', and it is the first payload with
\* that cookie and kind that the child emitted after the request was written,
\* whatever else the child emitted before it.
C1_QueryReturnsFirstAnswer ==
    query_ret # NoMessage =>
        /\ query_ret.cookie = JStr(request.cookie)
        /\ query_ret.type \in {Chars("reply"), Chars("error")}
        /\ answers # <<>>
        /\ ~Raised(readMessage(answers[1]))
        /\ readMessage(answers[1]).val = query_ret

\* query has returned the reply after reading two frames that did not answer it
C1_Witness ==
    /\ trail = [op |-> "query", how |-> "returned"]
    /\ query_ret # NoMessage /\ result = query_ret
    /\ nframes >= 3 /\ Len(answers) = 1 /\ stdout = <<>>

\* the child's output holds, unread, the whole frame of a reply that answers
\* the request and that readMessage accepts
ReplyUnread ==
    /\ request # NoRequest
    /\ \E i \in 1..Len(Menu) :
          /\ IsAnswer(Menu[i], request)
          /\ DictGet(Menu[i], Chars("type")) = JStr(Chars("reply"))
          /\ ~Raised(readMessage(Menu[i]))
          /\ query_matches(readMessage(Menu[i]).val, request)
          /\ stdout = ChildFrame(Menu[i], "whole")

\* C37: a whole reply frame that the child wrote before it exited is
\* delivered: query does not end by raising because the child has exited
\* while the frame of the matching reply is in the pipe, unread.
C37_WrittenReplyDelivered ==
    (/\ trail = [op |-> "query", how |-> "raised"]
     /\ raw_ret.how = "exited" /\ child = "exited")
        => ~ReplyUnread

\* the counter value a cookie was formatted from
CookieNumber(cookie) == ScanDigits(cookie, Len(Chars("meson_")) + 1, 0).val

\* C2: the cookies handed out so far are pairwise distinct, and each was made
\* from a strictly greater counter value than every cookie handed out before it.
C2_CookiesDistinctIncreasing ==
    \A i, j \in 1..Len(cookies) :
        i < j => /\ cookies[i] # cookies[j]
                 /\ CookieNumber(cookies[i]) < CookieNumber(cookies[j])

\* a second request, of another class than the first, has been constructed
C2_Witness ==
    /\ Len(cookies) >= 2 /\ request.cookie = cookies[Len(cookies)]
    /\ request.cls = "RequestCMakeInputs" /\ pc = "q_read"

\* C4: readMessageRaw that ends because the stream ended (the pipe is at EOF or
\* the process has exited), and so before an end sentinel, raises CMakeException.
C4_TruncatedStreamRaises ==
    raw_ret.how \in {"eof", "exited"} => raw_ret.exc.type = "CMakeException"

\* the payload a frame carries must make readMessage raise: it has no 'type', a
\* type outside the six kinds, a reply kind outside reply_map, or lacks a key
\* that CMAKE_MESSAGE_TYPES or CMAKE_REPLY_TYPES requires of its kind
InvalidFrame(val) ==
    LET type == DictGet(val, Chars("type"))
        kind == DictGet(val, Chars("inReplyTo"))
        Lacks(keys) == \E k \in 1..Len(keys) : ~DictHas(val, keys[k])
    IN  \/ ~DictHas(val, Chars("type"))
        \/ type \notin {JStr(t) : t \in TypeMapKeys}
        \/ Lacks(CMAKE_MESSAGE_TYPES(type.v))
        \/ /\ type = JStr(Chars("reply"))
           /\ \/ kind \notin {JStr(k) : k \in ReplyMapKeys}
              \/ Lacks(CMAKE_REPLY_TYPES(kind.v))

\* C5: a step in which readMessage gets an invalid frame ends the client call
\* with CMakeException; nothing is returned and the query does not read on.
C5_InvalidFrameRaises ==
    [][(/\ pc \in {"hs_read", "q_read"}
        /\ rawData # <<>> /\ rawData' = <<>> /\ raw_ret'.exc = NoExc
        /\ InvalidFrame(readMessageRaw_end(rawData).val))
       => (/\ exc'.type = "CMakeException"
           /\ pc' \in {"idle", "finally"}
           /\ result' = NoMessage)]_vars

\* C8: once a 'with client.connect():' block has been left, the session holds
\* no process.
C8_ExitLeavesNoProcess ==
    trail = [op |-> "connect", how |-> "exit"] => proc = "None"

\* the number of places where the text w occurs in s
CountOf(w, s) == Cardinality({i \in 1..Len(s) : MatchAt(s, i, w)})

\* C9: at most one request is written and not yet answered: while query reads,
\* it is the request of that query, written to the child in exactly one frame
\* with nothing left buffered; outside a query no request is outstanding.
C9_SingleOutstandingRequest ==
    /\ Len(outstanding) <= 1
    /\ pc = "q_read" =>
          /\ outstanding = <<request.cookie>>
          /\ CountOf(CMAKE_SERVER_BEGIN_STR, child_in) = 1
          /\ CountOf(DumpStr(request.cookie), child_in) = 1
          /\ stdin_buf = <<>>
    /\ pc # "q_read" => outstanding = <<>>

\* query still reads for its one request after two frames that did not answer it
C9_Witness ==
    /\ pc = "q_read" /\ api = "query" /\ outstanding = <<request.cookie>>
    /\ nframes >= 2 /\ answers = <<>> /\ stdout = <<>> /\ child = "running"
    /\ raw_ret.how = "sentinel"

-----------------------------------------------------------------------------
(* Properties of the codec (under SpecCodec)                               *)

\* C3: the frame writeMessage makes of a request, read by readMessageRaw from a
\* stream whose process runs, decodes to a value equal to the dict of the request.
C3_FramingRoundTrip ==
    pc = "codec_done" => (exc = NoExc /\ result = to_dict(request))

\* a request holding a quote, a backslash and the text of the end sentinel has
\* been written and read back, after an earlier frame on the same stream
C3_Witness ==
    /\ pc = "codec_done" /\ exc = NoExc /\ Len(cookies) = 2
    /\ request.cls = "RequestConfigure"
    /\ request.f.args = JList(<<JStr(CMAKE_SERVER_END_STR), JStr(<<DQ, NL>>)>>)
    /\ result = to_dict(request)

\* the step delivers a parsed frame to readMessage: the value of the frame
FrameRead == rawData # <<>> /\ rawData' = <<>> /\ raw_ret'.exc = NoExc

\* C11: do_handshake returns normally only when query returned the handshake
\* reply that carries the cookie of the handshake request; when query returned
\* anything else (an error, a reply of another kind), do_handshake raises the
\* handshake failure.
C11_HandshakeNeedsHandshakeReply ==
    [][(api = "do_handshake" /\ api' = "none") =>
          /\ exc' = NoExc =>
                /\ pc = "q_read" /\ request.cls = "RequestHandShake"
                /\ query_ret'.cls = "ReplyHandShake"
                /\ query_ret'.cookie = JStr(request.cookie)
          /\ (pc = "q_read" /\ query_ret' # NoMessage /\ query_ret'.cls # "ReplyHandShake") =>
                /\ exc'.type = "CMakeException"
                /\ exc'.msg = "Failed to perform the handshake with the CMake server"
                /\ pc' \in {"idle", "finally"}]_vars

\* do_handshake has raised the handshake failure on a reply of the kind
\* 'configure' that carried the cookie of the handshake request
C11_Witness ==
    /\ trail = [op |-> "do_handshake", how |-> "raised"]
    /\ request.cls = "RequestHandShake"
    /\ query_ret = ReplyConfigure(JStr(request.cookie))
    /\ exc.msg = "Failed to perform the handshake with the CMake server"

\* C12: when the first complete frame do_handshake reads has a kind other than
\* 'hello', do_handshake raises CMakeException and no handshake request is
\* made or written.
C12_FirstFrameMustBeHello ==
    [][(pc = "hs_read" /\ FrameRead /\ raw_ret'.how = "sentinel"
        /\ LET v == readMessageRaw_end(rawData).val
           IN  /\ v.t = "dict" /\ DictHas(v, Chars("type"))
               /\ DictGet(v, Chars("type")).t = "str"
               /\ DictGet(v, Chars("type")) # JStr(Chars("hello")))
       => /\ exc'.type = "CMakeException" /\ pc' \in {"idle", "finally"}
          /\ cookie_counter' = cookie_counter /\ child_in' = child_in
          /\ stdin_buf' = stdin_buf]_vars

\* C13: startup with a process owned and no shutdown since it was started
\* raises the already-started error and leaves the process as it is; startup
\* after a shutdown (or on a new client) is not refused as already started
\* and, when it returns, has started a new process.
C13_StartupAfterShutdown ==
    [][CallStartup =>
          IF proc # "None" /\ closes = <<>>
          THEN /\ exc'.msg = "The CMake server was already started"
               /\ proc' = proc /\ child' = child /\ stdout' = stdout
          ELSE /\ exc'.msg # "The CMake server was already started"
               /\ exc' = NoExc => (proc' = "Popen" /\ child' = "running")]_vars

\* C14: every shutdown, direct or by the end of a with block, leaves no owned
\* process, and with no process owned it closes, waits for and terminates
\* nothing.
C14_ShutdownIdempotent ==
    [][(CallShutdown \/ ExitWith) =>
          /\ proc' = "None"
          /\ proc = "None" => (closes' = <<>> /\ UNCHANGED <<child, stdout, out_open>>)]_vars

\* C15: a shutdown of an owned process closes both pipe ends and waits,
\* terminates the child when the wait timed out, raises nothing of its own,
\* and leaves no owned process.
C15_ShutdownCompletes ==
    [][((CallShutdown \/ ExitWith) /\ proc # "None") =>
          /\ closes' \in {<<"stdin.close", "stdout.close", "wait">>,
                          <<"stdin.close", "stdout.close", "wait", "terminate">>}
          /\ exc' = (IF pc = "finally" THEN exc ELSE NoExc)
          /\ proc' = "None"]_vars

\* C16: when the read loop of a query is left because the child has exited or
\* its output is at EOF, the query goes on reading or ends by raising
\* CMakeException; it returns no message and raises nothing else.
C16_QueryEndsWithProtocolError ==
    [][(ReadStep /\ pc = "q_read" /\ raw_ret'.how \in {"eof", "exited"} /\ pc' # "q_read") =>
          (exc'.type = "CMakeException" /\ result' = NoMessage)]_vars

\* C17 as stated: a message that query logs and drops has the kind 'message',
\* 'progress' or 'signal'.
C17_DropsNotificationsOnly ==
    [][(pc = "q_read" /\ pc' = "q_read" /\ FrameRead
        /\ ~Raised(readMessage(readMessageRaw_end(rawData).val)))
       => readMessage(readMessageRaw_end(rawData).val).val.type
             \in {Chars("message"), Chars("progress"), Chars("signal")}]_vars

\* C17, amended: query logs and drops exactly the well-formed messages that
\* are not a 'reply' or 'error' carrying the cookie of the request, whatever
\* their kind; a 'reply' or 'error' with the cookie of the request ends it.
C17_DropsAllButAnswers ==
    [][(pc = "q_read" /\ FrameRead
        /\ ~Raised(readMessage(readMessageRaw_end(rawData).val)))
       => LET m == readMessage(readMessageRaw_end(rawData).val).val
              answer == /\ m.cookie = JStr(request.cookie)
                        /\ m.type \in {Chars("reply"), Chars("error")}
          IN  /\ pc' = "q_read" <=> ~answer
              /\ pc' = "q_read" => (log' = LogOf(m) /\ exc' = NoExc /\ result' = NoMessage)
              /\ answer => query_ret' = m]_vars

\* the running query has just logged, through mlog.error, an 'error' frame
\* that carried another cookie, and reads on
C17_Witness ==
    /\ pc = "q_read" /\ api \in {"query", "query_checked"}
    /\ log = LogOf(Error(JStr(gen_cookie(0)), JStr(<<"E">>)))

-----------------------------------------------------------------------------
(* Properties of initialise (under SpecInit)                               *)

\* C18: initialise issues its requests in the order handshake, configure,
\* compute, cmakeInputs, codemodel, one at a time, after the configure run and
\* startup and before shutdown; and when cmake is found, the configure run
\* succeeds and the server sends nothing but the hello and, to every request,
\* a reply of the request's kind, initialise completes and stores the code
\* model.
C18_InitialiseCompletes ==
    LET order == <<Chars("handshake"), Chars("configure"), Chars("compute"),
                   Chars("cmakeInputs"), Chars("codemodel")>>
    IN  /\ Len(outstanding) <= 1
        /\ pc = "q_read" => request.type = order[cookie_counter]
        /\ ipc \in {"configure", "connect"} => (cookie_counter = 0 /\ proc = "None")
        /\ closes # <<>> => ipc \in {"done", "raised"}
        /\ ipc = "done" => (codemodel # NoMessage /\ codemodel = result /\ proc = "None")
        /\ (ipc = "raised" /\ nframes = 0) => trail.op \in {"configure", "connect"} /\ trail.how = "raised"

-----------------------------------------------------------------------------
(* Properties of the flag extraction (under SpecConv)                      *)

\* a token -std=X, --std=X or /std:[v]X
IsStdToken(j) ==
    \/ StartsWith(j, <<"-", "s", "t", "d", "=">>)
    \/ StartsWith(j, <<"-", "-", "s", "t", "d", "=">>)
    \/ StartsWith(j, <<"/", "s", "t", "d", ":">>)

\* the X of a token -std=X, --std=X or /std:[v]X
StdOf(j) ==
    LET n == IF StartsWith(j, <<"-", "-">>) \/ StartsWith(j, <<"/", "s", "t", "d", ":", "v">>)
             THEN 6 ELSE 5
    IN  SubSeq(j, n + 1, Len(j))

\* one of -fPIC, -fpic, -fPIE, -fpie
IsPicToken(j) ==
    j \in {<<"-", "f", "P", "I", "C">>, <<"-", "f", "p", "i", "c">>,
           <<"-", "f", "P", "I", "E">>, <<"-", "f", "p", "i", "e">>}

\* the compile-arg list of a language key of the target, empty without the key
ArgsOf(tgt, lang) ==
    IF DictHas(JDict(tgt.compile_opts), lang) THEN DictGet(JDict(tgt.compile_opts), lang)
    ELSE <<>>

\* the language keys of the target
LangsOf(tgt) == {tgt.compile_opts[n][1] : n \in 1..Len(tgt.compile_opts)}

\* C19 as stated: after postprocess no compile-arg list of any language
\* holds a standard token or a PIC/PIE flag, and every such token of the input
\* is in override_options (as some <lang>_std=X) or has set pie.
C19_NoStdPicAnyLanguage ==
    cpc >= 2 =>
        /\ \A lang \in LangsOf(ctgt) : \A k \in 1..Len(ArgsOf(ctgt, lang)) :
              ~IsStdToken(ArgsOf(ctgt, lang)[k]) /\ ~IsPicToken(ArgsOf(ctgt, lang)[k])
        /\ \A lang \in LangsOf(cprev) : \A k \in 1..Len(ArgsOf(cprev, lang)) :
              LET j == ArgsOf(cprev, lang)[k]
              IN  /\ IsStdToken(j) =>
                        InSeq(lang \o <<"_", "s", "t", "d", "=">> \o StdOf(j),
                              ctgt.override_options)
                  /\ IsPicToken(j) => ctgt.pie

\* C19 (amended): after postprocess the compile-arg lists of the languages c
\* and cpp hold no standard token and no PIC/PIE flag; every standard token of
\* their input is in override_options as <lang>_std=X and every PIC/PIE flag of
\* their input has set pie; the other tokens of c and cpp keep their order, and
\* the lists of every other language are left as they were.
C19_NoStdPicInCAndCpp ==
    cpc >= 2 =>
        /\ LangsOf(ctgt) = LangsOf(cprev)
        /\ \A lang \in LangsOf(ctgt) :
              IF lang \in {<<"c">>, <<"c", "p", "p">>}
              THEN /\ ArgsOf(ctgt, lang) =
                         SelectSeq(ArgsOf(cprev, lang),
                                   LAMBDA j : ~IsStdToken(j) /\ ~IsPicToken(j))
                   /\ \A k \in 1..Len(ArgsOf(cprev, lang)) :
                         LET j == ArgsOf(cprev, lang)[k]
                         IN  /\ IsStdToken(j) =>
                                   InSeq(lang \o <<"_", "s", "t", "d", "=">> \o StdOf(j),
                                         ctgt.override_options)
                             /\ IsPicToken(j) => ctgt.pie
              ELSE ArgsOf(ctgt, lang) = ArgsOf(cprev, lang)

\* a c list with a standard token, a PIC flag and another flag went through
\* the extraction, and a fortran list with a PIC flag was left alone
C19_Witness ==
    /\ cpc = 2
    /\ cprev.compile_opts =
          << << <<"c">>, << <<"-", "-", "s", "t", "d", "=", "g">>, <<"-", "O">> >> >>,
             << <<"f", "o", "r", "t", "r", "a", "n">>, << <<"-", "f", "P", "I", "C">> >> >> >>
    /\ ctgt.compile_opts =
          << << <<"c">>, << <<"-", "O">> >> >>,
             << <<"f", "o", "r", "t", "r", "a", "n">>, << <<"-", "f", "P", "I", "C">> >> >> >>
    /\ ctgt.override_options = << <<"c", "_", "s", "t", "d", "=", "g">> >>
    /\ ~ctgt.pie

\* C20: a second run of the flag extraction on a target that went through it
\* leaves every compile-arg list, override_options and pie unchanged.
C20_ExtractionIdempotent ==
    cpc = 3 => (/\ ctgt.compile_opts = cprev.compile_opts
                /\ ctgt.override_options = cprev.override_options
                /\ ctgt.pie = cprev.pie)

\* the second run has ended on a target whose first run hoisted a standard of
\* c++ and a PIC flag and kept a flag
C20_Witness ==
    /\ cpc = 3
    /\ ctgt.override_options = << <<"c", "p", "p", "_", "s", "t", "d", "=", "1">> >>
    /\ ctgt.pie
    /\ ctgt.compile_opts = << << <<"c", "p", "p">>, << <<"-", "s", "t", "d", "x">> >> >> >>

RECURSIVE FirstOccurrences(_)
\* the distinct elements of a sequence, each at the place of its first occurrence
FirstOccurrences(q) ==
    IF q = <<>> THEN <<>>
    ELSE LET front == FirstOccurrences(SubSeq(q, 1, Len(q) - 1))
         IN  IF InSeq(q[Len(q)], front) THEN front ELSE Append(front, q[Len(q)])

RECURSIVE TokensOf(_, _)
\* the flags and -D<define> rewrites of the file groups of a language, in order
TokensOf(files, lang) ==
    IF files = <<>> THEN <<>>
    ELSE (IF MesonLanguage(Head(files).language) = lang
          THEN Head(files).flags \o
               [k \in 1..Len(Head(files).defines) |-> <<"-", "D">> \o Head(files).defines[k]]
          ELSE <<>>) \o TokensOf(Tail(files), lang)

\* C30: after construction from any sequence of file groups, the compile-arg
\* list of each language holds every distinct token of the flags and -D<define>
\* rewrites of the language's groups exactly once, at the place of its first
\* occurrence, tokens repeated within one group included.
C30_EachTokenOnce ==
    cpc = 1 =>
        /\ LangsOf(ctgt) = {MesonLanguage(cfiles0[k].language) : k \in 1..Len(cfiles0)}
        /\ \A lang \in LangsOf(ctgt) :
              ArgsOf(ctgt, lang) = FirstOccurrences(TokensOf(cfiles0, lang))

-----------------------------------------------------------------------------
(* Properties of statement synthesis (under SpecSynth)                     *)

\* the targets that target a has in link_with or object_libs
EdgesOf(a) ==
    {targets[a].link_with[k] : k \in 1..Len(targets[a].link_with)}
    \cup {targets[a].object_libs[k] : k \in 1..Len(targets[a].object_libs)}

RECURSIVE ReachIn(_, _)
\* the targets reached from the set S along at most n edges
ReachIn(S, n) ==
    IF n = 0 THEN S ELSE ReachIn(S \cup UNION {EdgesOf(a) : a \in S}, n - 1)

\* no target depends on itself, directly or through others
Acyclic ==
    \A a \in 1..Len(targets) : a \notin ReachIn(EdgesOf(a), Len(targets))

\* the positions of the statements emitted for target t
StatementsOf(t) == {p \in 1..Len(lines) : lines[p].of = t}

\* the four statements of a group bound to the identifiers of 'name' start at q
GroupAt(q, name) ==
    LET v == VarNames([name |-> name])
    IN  /\ q + 3 <= Len(lines)
        /\ <<lines[q].kind, lines[q + 1].kind, lines[q + 2].kind, lines[q + 3].kind>>
              = <<"inc", "src", "tgt", "dep">>
        /\ <<lines[q].var, lines[q + 1].var, lines[q + 2].var, lines[q + 3].var>>
              = <<v.inc, v.src, v.tgt, v.dep>>

\* the positions of the statements emitted for a target of the full name of t
StatementsOfFullName(t) ==
    {p \in 1..Len(lines) :
        lines[p].of # 0 /\ targets[lines[p].of].full_name = targets[t].full_name}

\* C6 as stated: with acyclic edges, for every edge A -> B of an emitted A, the
\* four statements of B (of the target of B's full name) are in the output
\* before the target declaration of A.
C6_DependencyStatementsFirst ==
    Acyclic =>
        \A p \in 1..Len(lines) :
            lines[p].kind = "tgt" =>
                \A b \in EdgesOf(lines[p].of) :
                    \E u \in 1..Len(targets) :
                        /\ targets[u].full_name = targets[b].full_name
                        /\ Cardinality(StatementsOf(u)) = 4
                        /\ \A r \in StatementsOf(u) : r < p

\* C6, amended: with acyclic edges, for every edge A -> B of an emitted A, a
\* whole group of four statements bound to the identifiers of B's name stands
\* before the target declaration of A, and so does every statement emitted for
\* B itself; B has none when a target of the same name was processed first.
C6_DependencyGroupFirst ==
    Acyclic =>
        \A p \in 1..Len(lines) :
            lines[p].kind = "tgt" =>
                \A b \in EdgesOf(lines[p].of) :
                    /\ \E q \in 1..Len(lines) : q + 3 < p /\ GroupAt(q, targets[b].name)
                    /\ \A r \in StatementsOf(b) : r < p
                    /\ Cardinality(StatementsOf(b)) \in {0, 4}

\* synthesis has returned for a chain A -> B -> C that the list holds in the
\* order A, B, C, so that B and C were emitted by the recursion
C6_Witness ==
    /\ spc = "returned" /\ Acyclic /\ Len(targets) = 3
    /\ targets[1].link_with = <<2>> /\ EdgesOf(2) = {3}
    /\ \A t \in 1..3 : Cardinality(StatementsOf(t)) = 4
    /\ lines[4].of = 3 /\ lines[8].of = 2 /\ lines[12].of = 1

C27_Repeatable ==
    /\ [](spc = "returned" /\ lines1 # <<>> => lines = lines1)
    /\ [][spc # "off" => targets' = targets]_vars

\* the second call has returned for three targets, two of them reached
\* through link_with
C27_Witness ==
    /\ spc = "returned" /\ Len(lines1) = 13 /\ Len(lines) = 13
    /\ targets[1].link_with = <<2>> /\ targets[2].link_with = <<3>>

\* C28: when a target of self.targets has a type without a meson function,
\* pretend_to_be_meson ends by raising CMakeException('Unknown target type')
\* and returns no statements.
C28_UnmappedKindRaises ==
    (/\ spc \in {"returned", "raised"} /\ project_name # ""
     /\ \E t \in 1..Len(targets) : meson_func(targets[t]) = "None")
        => /\ spc = "raised"
           /\ sexc.type = "CMakeException" /\ sexc.msg = "Unknown target type {}"


\* an earlier statement than p binds the identifier x as the 'kind' of a
\* target that satisfies owner
BoundBefore(p, x, kind, owner(_)) ==
    \E q \in 1..(p - 1) :
        /\ lines[q].kind = kind /\ lines[q].var = x
        /\ owner(lines[q].of)

\* the identifiers a statement refers to within its own group are bound
\* earlier by statements of the same target
OwnUsesBound(p) ==
    LET t == lines[p].of
    IN  /\ lines[p].kind = "tgt" =>
              /\ BoundBefore(p, lines[p].uses[1], "src", LAMBDA u : u = t)
              /\ BoundBefore(p, lines[p].uses[2], "inc", LAMBDA u : u = t)
        /\ lines[p].kind = "dep" =>
              /\ BoundBefore(p, lines[p].uses[1], "tgt", LAMBDA u : u = t)
              /\ BoundBefore(p, lines[p].uses[2], "inc", LAMBDA u : u = t)

\* C35 as stated: every identifier a statement refers to is bound by an
\* earlier statement, and that statement belongs to the target the reference
\* was resolved from: the entry of link_with or object_libs for the
\* identifiers of a target declaration, the target itself for the others.
C35_DefinitionBeforeUse ==
    \A p \in 1..Len(lines) :
        /\ OwnUsesBound(p)
        /\ lines[p].kind = "tgt" =>
              \A k \in 1..Len(Deps(targets[lines[p].of])) :
                  BoundBefore(p, lines[p].uses[2 + k], "tgt",
                              LAMBDA u : u = Deps(targets[lines[p].of])[k])

\* C35, amended: every identifier a statement refers to is bound by an earlier
\* statement; for the identifiers of the target's own group that statement
\* belongs to the target, and for an entry of link_with or object_libs it
\* belongs to a target of the entry's name, the key of the lookup.
C35_DefinitionBeforeUseByName ==
    \A p \in 1..Len(lines) :
        /\ OwnUsesBound(p)
        /\ lines[p].kind = "tgt" =>
              \A k \in 1..Len(Deps(targets[lines[p].of])) :
                  BoundBefore(p, lines[p].uses[2 + k], "tgt",
                              LAMBDA u : targets[u].name =
                                         targets[Deps(targets[lines[p].of])[k]].name)

\* synthesis has returned a target declaration that refers to an entry of
\* link_with which has no statements: the identifier was bound for another
\* target of the entry's name
C35_Witness ==
    /\ spc = "returned"
    /\ \E p \in 1..Len(lines) :
          /\ lines[p].kind = "tgt"
          /\ \E k \in 1..Len(targets[lines[p].of].link_with) :
                LET i == targets[lines[p].of].link_with[k]
                IN  /\ StatementsOf(i) = {}
                    /\ BoundBefore(p, lines[p].uses[2 + k], "tgt",
                                   LAMBDA u : u # i /\ targets[u].name = targets[i].name)

\* C36: when the edges of self.targets hold a cycle, pretend_to_be_meson ends
\* by raising the error the interpreter reports, CMakeException; it does not
\* return statements and does not exhaust the call stack.
C36_CycleReported ==
    (/\ spc \in {"returned", "raised"} /\ project_name # ""
     /\ ~Acyclic)
        => spc = "raised" /\ sexc.type = "CMakeException"

\* C38: when the names of the targets are pairwise distinct, no two
\* statements of the synthesized sequence bind the same identifier.
C38_IdentifiersDistinct ==
    (\A a, b \in 1..Len(targets) : a # b => targets[a].name # targets[b].name)
        => \A p, q \in 2..Len(lines) : p # q => lines[p].var # lines[q].var


-----------------------------------------------------------------------------
(* Properties of analyse (under SpecAnalyse)                               *)

\* C22: the converter only reads the foreign model: whatever analyse has
\* done, every field of every target of the stored code model and of its
\* file groups is as initialise stored it.
C22_ForeignReadOnly == codemodel = codemodel0

\* what two runs are compared on: the fields of every target, its edges as the
\* places of the targets they lead to
Outcome(tgts) ==
    [n \in 1..Len(tgts) |->
        [compile_opts |-> tgts[n].compile_opts, includes |-> tgts[n].includes,
         sources |-> tgts[n].sources, generated |-> tgts[n].generated,
         override_options |-> tgts[n].override_options,
         link_with |-> [k \in 1..Len(tgts[n].link_with) |->
                            PlaceOf(tgts, tgts[n].link_with[k])],
         object_libs |-> [k \in 1..Len(tgts[n].object_libs) |->
                              PlaceOf(tgts, tgts[n].object_libs[k])]]]

\* C21: when analyse has run twice on the same stored code model, the targets
\* of the second run equal those of the first: compile arguments of every
\* language, include directories, sources, generated sources, override
\* options, link_with and object_libs.
C21_AnalyseRerunnable ==
    (apc = "done" /\ arun = 2) => Outcome(targets) = Outcome(targets1)

\* the target of the code model that the ConverterTarget t was made of
ForeignOf(t) == CodeModelTargets(codemodel)[t.origin]

\* C29: once analyse has made its targets, none of them is made of a UTILITY
\* target of the code model, and every other target of the code model has
\* exactly one ConverterTarget.
C29_UtilityNeverConverted ==
    apc \in {"first", "second", "done"} =>
        /\ \A n \in 1..Len(targets) : ForeignOf(targets[n]).type # "UTILITY"
        /\ \A k \in 1..Len(CodeModelTargets(codemodel)) :
              CodeModelTargets(codemodel)[k].type # "UTILITY" =>
                  Cardinality({n \in 1..Len(targets) : targets[n].origin = k}) = 1

\* analyse has returned for a code model with a UTILITY target, which another
\* target names among its link libraries, and with other targets
C29_Witness ==
    /\ apc = "done"
    /\ \E k \in 1..Len(CodeModelTargets(codemodel)) :
          CodeModelTargets(codemodel)[k].type = "UTILITY"
    /\ \E n \in 1..Len(targets) : InSeq(<<"u", "t", "i", "l">>, targets[n].link_libraries)
    /\ Len(targets) = 2

\* C23: after analyse, every entry of the link_with and of the object_libs of
\* every target is one of the objects in self.targets of this run.
C23_EdgesWithinPass ==
    apc = "done" =>
        \A n \in 1..Len(targets) :
            \A k \in 1..Len(targets[n].link_with \o targets[n].object_libs) :
                \E m \in 1..Len(targets) :
                    targets[m].id = (targets[n].link_with \o targets[n].object_libs)[k]

\* the second run of analyse has returned with a target that has both kinds
\* of edges
C23_Witness ==
    /\ apc = "done" /\ arun = 2
    /\ \E n \in 1..Len(targets) : targets[n].link_with # <<>> /\ targets[n].object_libs # <<>>

\* the entry e of a link library list holds ',-rpath,'
IsRpath(e) ==
    \E k \in 1..(Len(e) - 7) : SubSeq(e, k, k + 7) = <<",", "-", "r", "p", "a", "t", "h", ",">>

\* the entry e is no absolute path and its last component is the full name of
\* a target of self.targets
NamesSibling(e) ==
    /\ e = <<>> \/ e[1] # "/"
    /\ \E m \in 1..Len(targets) : targets[m].full_name = basename(e)

\* C24: after postprocess, of the link libraries of the code model target the
\* entries with ',-rpath,' are gone; of the others, those that are no absolute
\* path and name a sibling by their basename are, in their order, the
\* link_with edges to siblings of these full names and no raw entries; all the
\* others (every absolute path among them) are the raw entries, in their order.
C24_LinkClassification ==
    apc \in {"second", "done"} =>
        \A n \in 1..Len(targets) :
            LET libs == ForeignOf(targets[n]).link_libraries
                edges == SelectSeq(libs, LAMBDA e : ~IsRpath(e) /\ NamesSibling(e))
                raw == SelectSeq(libs, LAMBDA e : ~IsRpath(e) /\ ~NamesSibling(e))
            IN  /\ targets[n].link_libraries = raw
                /\ Len(targets[n].link_with) = Len(edges)
                /\ \A k \in 1..Len(edges) :
                      \E m \in 1..Len(targets) :
                          /\ targets[m].id = targets[n].link_with[k]
                          /\ targets[m].full_name = basename(edges[k])

\* analyse has returned with a target whose code model target has an rpath
\* entry, an absolute path to a file named like a sibling (kept raw) and
\* relative entries that became edges
C24_Witness ==
    /\ apc = "done"
    /\ \E n \in 1..Len(targets) :
          /\ \E k \in 1..Len(ForeignOf(targets[n]).link_libraries) :
                IsRpath(ForeignOf(targets[n]).link_libraries[k])
          /\ InSeq(<<"/", "u", "/", "l", "i", "b", "c", ".", "a">>, targets[n].link_libraries)
          /\ InSeq(<<"-", "l", "m">>, targets[n].link_libraries)
          /\ Len(targets[n].link_with) = 2

\* the sources of the file groups of the code model target k that satisfy want
GroupSources(k, want(_)) ==
    Concat([g \in 1..Len(k.files) |-> IF want(k.files[g]) THEN k.files[g].sources ELSE <<>>])

\* C25: after analyse, when a file of an OBJECT_LIBRARY target has, with '.o'
\* appended, the basename of a generated entry of a target, this target has
\* an object_libs edge to the object library and no generated source of this
\* basename.
C25_ObjectLibraryInference ==
    apc = "done" =>
        \A c \in 1..Len(targets), o \in 1..Len(targets) :
            targets[o].type = "OBJECT_LIBRARY" =>
                LET files == GroupSources(ForeignOf(targets[o]), LAMBDA g : TRUE)
                    gen == GroupSources(ForeignOf(targets[c]), LAMBDA g : g.is_generated)
                IN  \A x \in 1..Len(files), y \in 1..Len(gen) :
                        basename(files[x] \o <<".", "o">>) = basename(gen[y]) =>
                            /\ InSeq(targets[o].id, targets[c].object_libs)
                            /\ \A e \in 1..Len(targets[c].generated) :
                                  basename(targets[c].generated[e]) # basename(gen[y])

\* analyse has returned; the object library comes before the target that has
\* one of its objects among its generated sources, and this target has the
\* edge and has another generated source left
C25_Witness ==
    /\ apc = "done"
    /\ Len(targets) = 2
    /\ targets[1].type = "OBJECT_LIBRARY"
    /\ \E y \in 1..Len(GroupSources(ForeignOf(targets[2]), LAMBDA g : g.is_generated)) :
          basename(GroupSources(ForeignOf(targets[2]), LAMBDA g : g.is_generated)[y])
              = <<"h", ".", "c", ".", "o">>
    /\ targets[2].object_libs = <<targets[1].id>>
    /\ targets[2].generated # <<>>

\* the include directories of the file groups of the code model target k, in
\* the order of the groups
ForeignIncludes(k) == Concat([g \in 1..Len(k.files) |-> k.files[g].includes])

\* C31: after postprocess no include directory of a target appears twice, and
\* the directories of its file groups stand in self.includes in the order of
\* their first occurrences in the code model.
C31_IncludesOrdered ==
    apc \in {"second", "done"} =>
        \A n \in 1..Len(targets) :
            LET dirs == ForeignIncludes(ForeignOf(targets[n]))
                want == Uniq([k \in 1..Len(dirs) |-> rel_path(targets[n], dirs[k])])
            IN  /\ \A a, b \in 1..Len(targets[n].includes) :
                      targets[n].includes[a] = targets[n].includes[b] => a = b
                /\ SelectSeq(targets[n].includes, LAMBDA d : InSeq(d, want)) = want

Under(y, root) ==
    /\ Len(PathComps(root)) <= Len(PathComps(y))
    /\ SubSeq(PathComps(y), 1, Len(PathComps(root))) = PathComps(root)

\* the path from the directory root to the path y under it
RelativeTo(y, root) ==
    LET rest == SubSeq(PathComps(y), Len(PathComps(root)) + 1, Len(PathComps(y)))
    IN  IF rest = <<>> THEN <<".">> ELSE JoinWith(<<"/">>, rest)

\* the build root scoped to the subdirectory of this conversion
ScopedBuildRoot == join(get_build_dir, subdir)

\* the path x of the target t rebased with the precedence of the claim
Rebased(t, x) ==
    LET y == IF isabs(x) THEN x ELSE normpath(join(t.src_dir, x))
    IN  IF Under(y, src_dir) THEN RelativeTo(y, src_dir)
        ELSE IF Under(y, ScopedBuildRoot) THEN RelativeTo(y, ScopedBuildRoot)
        ELSE y

\* C33: after postprocess every source, generated source and include directory
\* of a target is its path in the code model, resolved against the source
\* directory of the target when relative, then written relative to the source
\* root when under it, else relative to the build root scoped to the
\* subdirectory when under that, else left absolute.
C33_PathRebasing ==
    (apc = "second" /\ ai = 1) =>
        \A n \in 1..Len(targets) :
            LET t == targets[n]
                srcs == SelectSeq(GroupSources(ForeignOf(t), LAMBDA g : ~g.is_generated), NoRule)
                gens == SelectSeq(GroupSources(ForeignOf(t), LAMBDA g : g.is_generated), NoRule)
                dirs == ForeignIncludes(ForeignOf(t))
            IN  /\ t.sources = [k \in 1..Len(srcs) |-> Rebased(t, srcs[k])]
                /\ t.generated = [k \in 1..Len(gens) |-> Rebased(t, gens[k])]
                /\ \A k \in 1..Len(dirs) : InSeq(Rebased(t, dirs[k]), t.includes)
                /\ \A k \in 1..Len(t.includes) :
                      \/ \E d \in 1..Len(dirs) : t.includes[k] = Rebased(t, dirs[d])
                      \/ t.includes[k] = Rebased(t, t.build_dir)
                      \/ t.includes[k] = <<".">>

\* the entries of q that do not end in '.o'
NotObjects(q) ==
    SelectSeq(q, LAMBDA x : ~(Len(x) >= 2 /\ x[Len(x) - 1] = "." /\ x[Len(x)] = "o"))

\* C34: a call of process_object_libs takes out of self.generated the entries
\* that end in '.o' and no others, keeps the order of the rest, and leaves the
\* sources, include directories, link_with and compile arguments of the
\* target as they are; it does so whether or not an object library matched.
C34_ObjectStripFrame ==
    [][(apc = "second" /\ ai <= Len(targets)) =>
          /\ targets'[ai].generated = NotObjects(targets[ai].generated)
          /\ targets'[ai].sources = targets[ai].sources
          /\ targets'[ai].includes = targets[ai].includes
          /\ targets'[ai].link_with = targets[ai].link_with
          /\ targets'[ai].compile_opts = targets[ai].compile_opts]_vars

\* analyse has returned for a single target that has objects among the
\* generated sources of the code model and no object library to match them:
\* the objects are gone, the other generated source is left
C34_Witness ==
    /\ apc = "done"
    /\ Len(targets) = 1
    /\ Len(GroupSources(ForeignOf(targets[1]), LAMBDA g : g.is_generated)) = 3
    /\ targets[1].object_libs = <<>>
    /\ Len(targets[1].generated) = 1

-----------------------------------------------------------------------------
(* Properties of the phases of the interpreter (under SpecPhases)          *)

\* pretend_to_be_meson has ended with the error of line 344
NotAnalysedRaised ==
    /\ spc = "raised"
    /\ sexc.type = "CMakeException" /\ sexc.msg = "CMakeInterpreter was not analysed"

\* pretend_to_be_meson has been called and has passed its first check
PretendChecked == spc \notin {"off", "start"}

\* C40: the phases are guarded in the order initialise, analyse,
\* pretend_to_be_meson: analyse called without a stored code model raises
\* 'CMakeInterpreter was not initialized'; pretend_to_be_meson called when no
\* analyse has returned raises 'CMakeInterpreter was not analysed'; and called
\* after analyse has returned, it does not raise that error.
C40_PhasesGuarded ==
    /\ (codemodel = NoMessage /\ apc # "start") =>
           /\ apc = "raised" /\ aexc.type = "CMakeException"
           /\ aexc.msg = "CMakeInterpreter was not initialized"
    /\ (PretendChecked /\ arun = 0) => NotAnalysedRaised
    /\ (PretendChecked /\ arun > 0) => ~NotAnalysedRaised

=============================================================================
